---- MODULE Spec2Model ----
(***************************************************************************)
(* CppLox: the multi-VM execution engine.                                  *)
(*                                                                         *)
(* The model follows src/source/vm.cpp (the dispatcher-era VM, lines       *)
(* 203-1483), src/source/dispatcher.cpp, src/source/object.cpp and         *)
(* src/source/memory.cpp.  One host thread runs one VM of the dispatcher's *)
(* pool; a thread step is one bytecode instruction, except that the        *)
(* dispatcher's critical sections are split at their lock acquisitions and *)
(* the range-for of terminateAllThreads is split per element, because      *)
(* other threads run in between.                                           *)
(*                                                                         *)
(* Memory is flat: a stack address is a pair (pool slot, cell index), so a *)
(* Value* of one VM may point into the stack array of another VM, as the   *)
(* pointers the code computes do.                                          *)
(***************************************************************************)
EXTENDS Integers, Sequences, FiniteSets, TLC

\* vm_pool[32] (dispatcher.hpp:17), scaled down: the pool behaves alike for
\* every size, and a saturated pool must be reachable.
PoolSize == 3
\* Cells modelled of each VM's value stack (STACK_MAX = 64 * 256 in the code).
MaxStack == 6
\* Entries modelled of the finishStack array.
MaxFinish == 1

MainThread == 0
Threads == 0..PoolSize
Children == 1..PoolSize
\* Slot -1 is the storage the code reaches through vm_pool[-1].
Slots == (-1)..(PoolSize - 1)
NoVM == -2
NoThread == -1
NULL == 0

---------------------------------------------------------------------------
(* Values (value.hpp): a tagged union.  Zeroed storage reads as the first  *)
(* enumerator, VAL_BOOL, with payload 0.                                   *)

BoolVal(b) == [t |-> "bool", v |-> IF b THEN 1 ELSE 0]
NilVal == [t |-> "nil", v |-> 0]
NumberVal(n) == [t |-> "number", v |-> n]
ObjVal(o) == [t |-> "obj", v |-> o]
ZeroVal == BoolVal(FALSE)

IS_NUMBER(x) == x.t = "number"
IS_OBJ(x) == x.t = "obj"

\* value.cpp:110-134 (tagged-union branch)
valuesEqual(a, b) ==
    IF a.t # b.t THEN FALSE
    ELSE IF a.t = "nil" THEN TRUE
    ELSE a.v = b.v

\* vm.cpp:1385-1388
isFalsey(x) == x.t = "nil" \/ (x.t = "bool" /\ x.v = 0)

Addr(vmIdx, cell) == [vm |-> vmIdx, i |-> cell]

---------------------------------------------------------------------------
(* Programs.  An instruction is [op, a]; ip counts instructions, a jump    *)
(* operand is the distance from the following instruction, as the 16-bit   *)
(* operand is the distance from the byte after it.  Strings are sequences  *)
(* of characters.                                                          *)

I(op, a) == [op |-> op, a |-> a]
KStr(s) == [t |-> "string", chars |-> s, v |-> 0]
KNum(n) == [t |-> "number", chars |-> <<>>, v |-> n]

\* finish { async { print "a"; } async { print "b"; } } print "c";
ProgFinish ==
    [src |-> "finish2",
     consts |-> << KStr(<<"a">>), KStr(<<"b">>), KStr(<<"c">>) >>,
     code |-> << I("FINISH_BEGIN", 0),
                 I("ASYNC_BEGIN", 3), I("CONSTANT", 1), I("PRINT", 0), I("ASYNC_END", 0),
                 I("ASYNC_BEGIN", 3), I("CONSTANT", 2), I("PRINT", 0), I("ASYNC_END", 0),
                 I("FINISH_END", 0),
                 I("CONSTANT", 3), I("PRINT", 0),
                 I("NIL", 0), I("RETURN", 0) >>]

\* { var x = "p"; finish { async { x = "q"; } } print x; }
ProgLocal ==
    [src |-> "local",
     consts |-> << KStr(<<"p">>), KStr(<<"q">>) >>,
     code |-> << I("CONSTANT", 1),
                 I("FINISH_BEGIN", 0),
                 I("ASYNC_BEGIN", 4), I("CONSTANT", 2), I("SET_LOCAL", 1), I("POP", 0),
                 I("ASYNC_END", 0),
                 I("FINISH_END", 0),
                 I("GET_LOCAL", 1), I("PRINT", 0), I("POP", 0),
                 I("NIL", 0), I("RETURN", 0) >>]

\* async {} ... async {}   (one async statement per pool slot)
RECURSIVE Asyncs(_)
Asyncs(n) == IF n = 0 THEN <<>>
             ELSE << I("ASYNC_BEGIN", 1), I("ASYNC_END", 0) >> \o Asyncs(n - 1)

ProgSaturate ==
    [src |-> "saturate",
     consts |-> <<>>,
     code |-> Asyncs(PoolSize) \o << I("NIL", 0), I("RETURN", 0) >>]

\* async {} async { while (true) {} } async { -"x"; }
ProgFail ==
    [src |-> "fail",
     consts |-> << KStr(<<"x">>) >>,
     code |-> << I("ASYNC_BEGIN", 1), I("ASYNC_END", 0),
                 I("ASYNC_BEGIN", 6), I("TRUE", 0), I("JUMP_IF_FALSE", 2), I("POP", 0),
                 I("LOOP", 4), I("POP", 0), I("ASYNC_END", 0),
                 I("ASYNC_BEGIN", 4), I("CONSTANT", 1), I("NEGATE", 0), I("POP", 0),
                 I("ASYNC_END", 0),
                 I("NIL", 0), I("RETURN", 0) >>]

\* print "a" + "b" == "ab";
ProgConcat ==
    [src |-> "concat",
     consts |-> << KStr(<<"a">>), KStr(<<"b">>), KStr(<<"a", "b">>) >>,
     code |-> << I("CONSTANT", 1), I("CONSTANT", 2), I("ADD", 0), I("CONSTANT", 3),
                 I("EQUAL", 0), I("PRINT", 0),
                 I("NIL", 0), I("RETURN", 0) >>]

\* { var s = "ab"; s[0] = "b"; print s == "bb"; }
ProgStore ==
    [src |-> "store",
     consts |-> << KStr(<<"a", "b">>), KNum(0), KStr(<<"b">>), KStr(<<"b", "b">>) >>,
     code |-> << I("CONSTANT", 1),
                 I("GET_LOCAL", 1), I("CONSTANT", 2), I("CONSTANT", 3), I("INDEX_SET", 0),
                 I("POP", 0),
                 I("GET_LOCAL", 1), I("CONSTANT", 4), I("EQUAL", 0), I("PRINT", 0),
                 I("POP", 0),
                 I("NIL", 0), I("RETURN", 0) >>]

Programs == << ProgFinish, ProgLocal, ProgSaturate, ProgFail, ProgConcat, ProgStore >>

\* vm.cpp:453-460 and 1467-1474: the natives, in registration order.
NativeNames ==
    << <<"c","l","o","c","k">>, <<"r","a","n","d">>, <<"a","p","p","e","n","d">>,
       <<"d","e","l","e","t","e">>, <<"i","n","t","_","i","n","p","u","t">>,
       <<"s","t","r","_","i","n","p","u","t">>, <<"c","h","a","r","_","i","n","p","u","t">>,
       <<"l","e","n">> >>

InitChars == <<"i", "n", "i", "t">>

---------------------------------------------------------------------------
VARIABLES
    chunk,          \* the compiled script: code and constant pool
    proc,           \* the host process: "running", "exit(0)", "exit(70)", "SIGSEGV"
    pc,             \* each host thread's position
    tvm,            \* the VM a thread's run() executes on (childVM / this)
    vm,             \* Dispatcher::vm_pool (and the storage before it, slot -1)
    stack,          \* the value-stack arrays of the VMs
    heap,           \* heap objects, by address
    gvm,            \* the singleton VM::vm, which VM::getVM() returns
    id_to_vm,       \* Dispatcher::id_to_vm
    thread_arr,     \* Dispatcher::thread_arr: buffer and size
    id_to_vm_mtx,   \* holder of Dispatcher::id_to_vm_mtx
    vm_pool_mtx,    \* holder of Dispatcher::vm_pool_mtx
    new_thread,     \* the std::thread local of ASYNC_BEGIN in each run() frame
    iter,           \* position of a thread's range-for over thread_arr
    out,            \* stdout, one entry per printed line
    nthreads,       \* host threads created so far
    result,         \* what run() returned on each thread
    hist            \* history: finish scopes, thread_arr at terminateAllThreads

vars == << chunk, proc, pc, tvm, vm, stack, heap, gvm, id_to_vm, thread_arr,
           id_to_vm_mtx, vm_pool_mtx, new_thread, iter, out, nthreads, result, hist >>

---------------------------------------------------------------------------
(* The machine state the helper functions of the code work on.             *)

Mach == [vm |-> vm, stack |-> stack, heap |-> heap, gvm |-> gvm]

\* F of the value of x, with x evaluated once
Then(x, F(_)) == CHOOSE r \in {F(v) : v \in {x}} : TRUE

\* vm.cpp:1214-1218
push(S, v, val) ==
    LET a == S.vm[v].stackTop IN
    [S EXCEPT !.stack[a.vm][a.i] = val,
              !.vm[v].stackTop = Addr(a.vm, a.i + 1)]

\* vm.cpp:1228-1232
pop(S, v) == [S EXCEPT !.vm[v].stackTop = Addr(@.vm, @.i - 1)]

\* vm.cpp:1242-1245
peek(S, v, distance) ==
    LET a == S.vm[v].stackTop IN S.stack[a.vm][a.i - 1 - distance]

\* frame->slots[slot]
SlotAddr(S, v, slot) == Addr(S.vm[v].slots.vm, S.vm[v].slots.i + slot)

\* sizeof of the object classes of object.hpp (LP64)
SizeOf(type) ==
    CASE type = "string" -> 40
      [] type = "native" -> 24
      [] type = "closure" -> 40
      [] type = "upvalue" -> 48
      [] type = "list" -> 32
      [] OTHER -> 72

\* memory.hpp:71-74
GROW_CAPACITY(capacity) == IF capacity < 8 THEN 8 ELSE capacity * 2

\* memory.cpp:33-54: the byte counter is the one of VM::getVM(); the
\* collection it would trigger is commented out.
reallocate(S, oldSize, newSize) ==
    [S EXCEPT !.gvm.bytesAllocated = @ + newSize - oldSize]

NewId(S) == Len(S.heap) + 1

\* the object is linked into the list of VM::getVM()
allocateObject_onSingleton(S, cur, type, chars) ==
    LET S1 == reallocate(S, 0, SizeOf(type)) IN
    [S1 EXCEPT !.heap = Append(@, [type |-> type, chars |-> chars, hash |-> chars,
                                   isMarked |-> FALSE]),
               !.gvm.objects = << NewId(S) >> \o @]

\* object.cpp:115-130; cur is dispatcher->getVM() of the calling thread
allocateObject(S, cur, type, chars) ==
    LET S1 == reallocate(S, 0, SizeOf(type)) IN
    [S1 EXCEPT !.heap = Append(@, [type |-> type, chars |-> chars, hash |-> chars,
                                   isMarked |-> FALSE]),
               !.vm[cur].objects = << NewId(S) >> \o @]

\* sizeof(Value) (value.hpp: the tag and the union)
ValueSize == 16

\* object.cpp:439-446: the list is the object NewId(S) of the result
newList(S, cur) ==
    [allocateObject(S, cur, "list", <<>>) EXCEPT
        !.heap[NewId(S)] = @ @@ [items |-> <<>>, capacity |-> 0]]

\* object.cpp:448-458: items holds the first count cells of the array
appendToList(S, list, value) ==
    LET o  == S.heap[list]
        S1 == IF o.capacity < Len(o.items) + 1
              THEN [reallocate(S, ValueSize * o.capacity,
                               ValueSize * GROW_CAPACITY(o.capacity))
                      EXCEPT !.heap[list].capacity = GROW_CAPACITY(o.capacity)]
              ELSE S
    IN  [S1 EXCEPT !.heap[list].items = Append(@, value)]

\* object.cpp:470-477 as it leaves the cells of a list that holds an item:
\* the items from index + 1 on move down by one (all of them for an index
\* below 0, none for an index of count - 1 or more) and the last cell is
\* given up
deleteFromList(S, list, index) ==
    [S EXCEPT !.heap[list].items =
        [i \in 1..(Len(@) - 1) |-> IF i <= index THEN @[i] ELSE @[i + 1]]]

\* table.cpp:415-456, as a map keyed by the key's address
tableSet(tbl, key, value) ==
    {e \in tbl : e.k # key} \cup {[k |-> key, v |-> value]}

\* table.cpp:560-641: an entry whose key has this length, hash and bytes.  The
\* hash is a function of the bytes the string had when it was created.
tableFindString(S, cur, chars) ==
    LET hits == {e \in S.vm[cur].strings :
                    S.heap[e.k].chars = chars /\ S.heap[e.k].hash = chars} IN
    IF hits = {} THEN NULL
    ELSE (CHOOSE e \in hits : \A f \in hits : e.k <= f.k).k

\* object.cpp:230-250
allocateString(S, cur, chars) ==
    LET id == NewId(S)
        S1 == allocateObject(S, cur, "string", chars)
        S2 == push(S1, cur, ObjVal(id))
        S3 == [S2 EXCEPT !.vm[cur].strings = tableSet(@, id, NilVal)]
    IN  pop(S3, cur)

\* object.cpp:264-291
copyString(S, cur, chars) ==
    LET interned == tableFindString(S, cur, chars) IN
    IF interned # NULL THEN [s |-> S, r |-> interned]
    ELSE LET S1 == reallocate(S, 0, Len(chars) + 1) IN
         [s |-> allocateString(S1, cur, chars), r |-> NewId(S1)]

\* object.cpp:309-318
takeString(S, cur, chars) ==
    [s |-> allocateString(S, cur, chars), r |-> NewId(S)]

\* vm.cpp:1432-1439; this is the VM being set up, cur the calling thread's VM
defineNative(S, this, cur, name) ==
    LET c  == copyString(S, cur, name)
        S1 == push(c.s, this, ObjVal(c.r))
        S2 == push(allocateObject(S1, cur, "native", name), this, ObjVal(NewId(S1)))
        S3 == [S2 EXCEPT !.vm[this].globals =
                  tableSet(@, S2.stack[this][1].v, S2.stack[this][2])]
    IN  pop(pop(S3, this), this)

\* The eight calls of defineNative, one after the other.  (Each
\* intermediate machine state is bound as a value, so that it is computed once.)
RECURSIVE defineNatives(_, _, _, _)
defineNatives(S, this, cur, k) ==
    IF k > Len(NativeNames) THEN S
    ELSE CHOOSE R \in {defineNatives(S1, this, cur, k + 1) :
                          S1 \in {defineNative(S, this, cur, NativeNames[k])}} : TRUE

\* vm.cpp:1199-1204
resetStack(S, v) ==
    [S EXCEPT !.vm[v].stackTop = Addr(v, 1), !.vm[v].frameCount = 0,
              !.vm[v].openUpvalues = NULL]

\* vm.cpp:435-461
initVM(S, this, cur) ==
    LET S1 == resetStack(S, this)
        S2 == [S1 EXCEPT !.vm[this].objects = <<>>,
                         !.vm[this].bytesAllocated = 0,
                         !.vm[this].strings = {},
                         !.vm[this].globals = {},
                         !.vm[this].finishStackCount = 0]
        c  == copyString(S2, cur, InitChars)
        S3 == [c.s EXCEPT !.vm[this].initString = c.r]
    IN  defineNatives(S3, this, cur, 1)

\* vm.cpp:1441-1480.  The copy of 2048 frames runs past the 64-frame arrays
\* into the fields that follow them, which the next lines copy again.
\* parent->stackTop - stack subtracts this VM's array from the parent's
\* pointer, so stack + diff is the parent's stackTop itself.
copyParent(S, this, cur, parent) ==
    IF parent = NoVM
    THEN [initVM(S, this, cur) EXCEPT !.vm[this].assigned = TRUE]
    ELSE
    LET S1 == [S EXCEPT !.vm[this].ip = S.vm[parent].ip,
                        !.vm[this].slots = S.vm[parent].slots,
                        !.stack[this] = S.stack[parent],
                        !.vm[this].stackTop = S.vm[parent].stackTop,
                        !.vm[this].frameCount = S.vm[parent].frameCount,
                        !.vm[this].parent = parent,
                        !.vm[this].strings = {},
                        !.vm[this].globals = {},
                        !.vm[this].openUpvalues = S.vm[parent].openUpvalues,
                        !.vm[this].bytesAllocated = 0,
                        !.vm[this].finishStackCount = 0]
        c  == copyString(S1, cur, InitChars)
        S2 == [c.s EXCEPT !.vm[this].initString = c.r]
        S3 == defineNatives(S2, this, cur, 1)
    IN  [S3 EXCEPT !.vm[this].assigned = TRUE]

---------------------------------------------------------------------------
(* Start-up: Dispatcher::dispatcher and VM::vm are created by new; both    *)
(* are larger than the allocator's mmap threshold, so their storage is     *)
(* fresh zero pages.  The main thread calls dispatchThread(NULL), compiles *)
(* the script and enters interpret().                                      *)

\* table.cpp:111-124
initTable == [count |-> 0, capacity |-> 0, entries |-> <<>>]

BlankVM ==
    [assigned |-> FALSE, threadFailure |-> FALSE,
     stackTop |-> Addr(NoVM, 0), ip |-> 0, slots |-> Addr(NoVM, 0),
     frameCount |-> 0, finishStackCount |-> 0,
     finishStack |-> [l \in 0..MaxFinish |-> <<>>],
     objects |-> <<>>, strings |-> {}, globals |-> {},
     initString |-> NULL, bytesAllocated |-> 0, parent |-> NoVM,
     openUpvalues |-> NULL]

BlankMach ==
    [vm |-> [s \in Slots |-> BlankVM],
     stack |-> [s \in Slots |-> [i \in 1..MaxStack |-> ZeroVal]],
     heap |-> <<>>,
     gvm |-> [bytesAllocated |-> 0, nextGC |-> 0, frameCount |-> 0,
              openUpvalues |-> NULL, globals |-> initTable, strings |-> initTable,
              initString |-> NULL, objects |-> <<>>, grayCount |-> 0,
              grayStack |-> <<>>, stack |-> <<>>, frames |-> <<>>]]

\* dispatcher.cpp:92-112 with parent = NULL: the first free slot is slot 0
dispatchThread(S) == copyParent([S EXCEPT !.vm[0].assigned = TRUE], 0, 0, NoVM)

\* The constants of the script, as compile() (part_001) adds them: a string
\* literal is interned with copyString, a number is stored as it is.
RECURSIVE makeConstants(_, _, _, _)
makeConstants(S, consts, k, acc) ==
    IF k > Len(consts) THEN [s |-> S, r |-> acc]
    ELSE IF consts[k].t = "string"
         THEN CHOOSE R \in {makeConstants(c.s, consts, k + 1, Append(acc, ObjVal(c.r))) :
                               c \in {copyString(S, 0, consts[k].chars)}} : TRUE
         ELSE makeConstants(S, consts, k + 1, Append(acc, NumberVal(consts[k].v)))

\* object.cpp:401-413; the function has no upvalues in the modelled scripts
newClosure(S, cur, function) ==
    LET S1 == allocateObject(S, cur, "closure", <<>>) IN
    [S1 EXCEPT !.heap[NewId(S)] = @ @@ [function |-> function]]

\* vm.cpp:489-501 up to the call of run(); call() sets the frame's ip to the
\* first instruction and its slots to stackTop - argCount - 1.
interpret(S, P) ==
    LET fn == NewId(S)
        k  == makeConstants(allocateObject(S, 0, "function", <<>>), P.consts, 1, <<>>)
    IN  CHOOSE R \in
          {[s |-> [S4 EXCEPT !.vm[0].ip = 1,
                             !.vm[0].slots = Addr(0, S4.vm[0].stackTop.i - 1),
                             !.vm[0].frameCount = 1],
            r |-> k.r] :
           S4 \in {push(pop(newClosure(S2, 0, fn), 0), 0, ObjVal(NewId(S2))) :
                    S2 \in {push(k.s, 0, ObjVal(fn))}}} : TRUE

Init ==
    \E p \in 1..Len(Programs) :
      \E boot \in {dispatchThread(BlankMach)} :
        \E b \in {interpret(boot, Programs[p])} :
        /\ chunk = [src |-> Programs[p].src, code |-> Programs[p].code, constants |-> b.r]
        /\ vm = b.s.vm
        /\ stack = b.s.stack
        /\ heap = b.s.heap
        /\ gvm = b.s.gvm
        /\ proc = "running"
        /\ pc = [t \in Threads |-> IF t = MainThread THEN "run" ELSE "unborn"]
        /\ tvm = [t \in Threads |-> IF t = MainThread THEN 0 ELSE NoVM]
        /\ id_to_vm = [t \in Threads |-> IF t = MainThread THEN 0 ELSE NoVM]
        /\ thread_arr = [buf |-> << MainThread >>, n |-> 1, cap |-> 1]
        /\ id_to_vm_mtx = NoThread
        /\ vm_pool_mtx = NoThread
        /\ new_thread = [t \in Threads |-> NoThread]
        /\ iter = [t \in Threads |-> [i |-> 0, e |-> 0, old |-> <<>>]]
        /\ out = <<>>
        /\ nthreads = 0
        /\ result = [t \in Threads |-> "none"]
        /\ hist = [finishOf |-> [t \in Threads |-> NoThread], closed |-> {},
                   atCall |-> {}]

---------------------------------------------------------------------------
(* VM::run (vm.cpp:581-1179).  A thread in run() executes the instruction  *)
(* at the ip of the top frame of its VM.                                   *)

Running(t) == proc = "running" /\ pc[t] = "run"

At(t, op) == Running(t) /\ chunk.code[vm[tvm[t]].ip].op = op

Operand(t) == chunk.code[vm[tvm[t]].ip].a

\* READ_BYTE of the opcode: the ip is past the instruction while it executes
Fetch(t) == [Mach EXCEPT !.vm[tvm[t]].ip = @ + 1]

Set(S) == vm' = S.vm /\ stack' = S.stack /\ heap' = S.heap /\ gvm' = S.gvm

\* NEXT_INSTRCTN(): stay in the loop
Continue(t, S) == Set(S) /\ UNCHANGED << pc, result >>

\* vm.cpp:1400-1421 followed by return INTERPRET_RUNTIME_ERROR
runtimeError(t, S) ==
    /\ Set(resetStack(S, tvm[t]))
    /\ pc' = [pc EXCEPT ![t] = "ret"]
    /\ result' = [result EXCEPT ![t] = "RUNTIME_ERROR"]

Dispatch == << chunk, proc, tvm, id_to_vm, thread_arr, id_to_vm_mtx, vm_pool_mtx,
               new_thread, iter, nthreads, hist >>

IS_STRING(S, x) == IS_OBJ(x) /\ S.heap[x.v].type = "string"

IS_LIST(S, x) == IS_OBJ(x) /\ S.heap[x.v].type = "list"

\* object.cpp: printValue, as the characters written
Show(S, x) ==
    CASE x.t = "bool" -> IF x.v = 1 THEN <<"t","r","u","e">> ELSE <<"f","a","l","s","e">>
      [] x.t = "nil" -> <<"n","i","l">>
      [] x.t = "number" -> << ToString(x.v) >>
      [] OTHER -> IF S.heap[x.v].type = "string" THEN S.heap[x.v].chars
                  ELSE <<"<", S.heap[x.v].type, ">">>

\* vm.cpp:727-731
OpConstant(t) ==
    /\ At(t, "CONSTANT")
    /\ Continue(t, push(Fetch(t), tvm[t], chunk.constants[Operand(t)]))
    /\ UNCHANGED << Dispatch, out >>

OpNil(t) ==
    /\ At(t, "NIL")
    /\ Continue(t, push(Fetch(t), tvm[t], NilVal))
    /\ UNCHANGED << Dispatch, out >>

OpTrue(t) ==
    /\ At(t, "TRUE")
    /\ Continue(t, push(Fetch(t), tvm[t], BoolVal(TRUE)))
    /\ UNCHANGED << Dispatch, out >>

\* vm.cpp:888-891
OpPop(t) ==
    /\ At(t, "POP")
    /\ Continue(t, pop(Fetch(t), tvm[t]))
    /\ UNCHANGED << Dispatch, out >>

\* vm.cpp:961-965
OpGetLocal(t) ==
    /\ At(t, "GET_LOCAL")
    /\ LET S == Fetch(t)
           a == SlotAddr(S, tvm[t], Operand(t))
       IN  Continue(t, push(S, tvm[t], S.stack[a.vm][a.i]))
    /\ UNCHANGED << Dispatch, out >>

\* vm.cpp:967-971
OpSetLocal(t) ==
    /\ At(t, "SET_LOCAL")
    /\ LET S == Fetch(t)
           a == SlotAddr(S, tvm[t], Operand(t))
       IN  Continue(t, [S EXCEPT !.stack[a.vm][a.i] = peek(S, tvm[t], 0)])
    /\ UNCHANGED << Dispatch, out >>

\* vm.cpp:840-845
OpEqual(t) ==
    /\ At(t, "EQUAL")
    /\ LET S  == Fetch(t)
           b  == peek(S, tvm[t], 0)
           a  == peek(S, tvm[t], 1)
           S2 == pop(pop(S, tvm[t]), tvm[t])
       IN  Continue(t, push(S2, tvm[t], BoolVal(valuesEqual(a, b))))
    /\ UNCHANGED << Dispatch, out >>

\* vm.cpp:873-877
OpPrint(t) ==
    /\ At(t, "PRINT")
    /\ LET S == Fetch(t) IN
       /\ out' = Append(out, Show(S, peek(S, tvm[t], 0)))
       /\ Continue(t, pop(S, tvm[t]))
    /\ UNCHANGED Dispatch

\* vm.cpp:973-978
OpJumpIfFalse(t) ==
    /\ At(t, "JUMP_IF_FALSE")
    /\ LET S == Fetch(t) IN
       Continue(t, IF isFalsey(peek(S, tvm[t], 0))
                   THEN [S EXCEPT !.vm[tvm[t]].ip = @ + Operand(t)]
                   ELSE S)
    /\ UNCHANGED << Dispatch, out >>

\* vm.cpp:990-994: the flag threadFailure is not read here
OpLoop(t) ==
    /\ At(t, "LOOP")
    /\ Continue(t, [Fetch(t) EXCEPT !.vm[tvm[t]].ip = @ - Operand(t)])
    /\ UNCHANGED << Dispatch, out >>

\* vm.cpp:748-755
OpNegate(t) ==
    /\ At(t, "NEGATE")
    /\ LET S == Fetch(t) IN
       IF ~IS_NUMBER(peek(S, tvm[t], 0))
       THEN runtimeError(t, S)
       ELSE Continue(t, push(pop(S, tvm[t]), tvm[t], NumberVal(0 - peek(S, tvm[t], 0).v)))
    /\ UNCHANGED << Dispatch, out >>

\* vm.cpp:757-769 with concatenate (vm.cpp:529-544)
OpAdd(t) ==
    /\ At(t, "ADD")
    /\ LET S == Fetch(t)
           b == peek(S, tvm[t], 0)
           a == peek(S, tvm[t], 1)
       IN  IF IS_STRING(S, b) /\ IS_STRING(S, a)
           THEN LET chars == S.heap[a.v].chars \o S.heap[b.v].chars
                    r == takeString(reallocate(S, 0, Len(chars) + 1), id_to_vm[t], chars)
                IN  Continue(t, push(pop(pop(r.s, tvm[t]), tvm[t]), tvm[t], ObjVal(r.r)))
           ELSE IF IS_NUMBER(b) /\ IS_NUMBER(a)
           THEN Continue(t, push(pop(pop(S, tvm[t]), tvm[t]), tvm[t], NumberVal(a.v + b.v)))
           ELSE runtimeError(t, S)
    /\ UNCHANGED << Dispatch, out >>

\* object.cpp:504-510
isValidStringIndex(string, index) == ~(index < 0 \/ index > Len(string.chars) - 1)

\* object.cpp:491-494: the character is written into the string object itself
storeToString(S, string, index, item) ==
    [S EXCEPT !.heap[string].chars[index + 1] =
                  IF Len(S.heap[item].chars) = 0 THEN "\\0" ELSE S.heap[item].chars[1]]

\* object.cpp:479-485
isValidListIndex(list, index) == ~(index < 0 \/ index > Len(list.items) - 1)

\* object.cpp:460-463
storeToList(S, list, index, value) == [S EXCEPT !.heap[list].items[index + 1] = value]

\* object.cpp:465-468
indexFromList(S, list, index) == S.heap[list].items[index + 1]

\* object.cpp:496-500: the character as a string of its own
indexFromString(S, cur, string, index) ==
    copyString(S, cur, << S.heap[string].chars[index + 1] >>)

\* vm.cpp:1096-1144 after the three pops: the outcomes of the instruction.
\* int index = AS_NUMBER(st_index) keeps the whole numbers of the model.
\* AS_STRING(st_item) of an item that is no string is a pointer made of the
\* bytes of another union member: reading its length faults, or finds a
\* length above 1, or a length and a first byte that get stored.
indexSet(S, v, st_obj, st_index, st_item) ==
    LET Fail == {[s |-> S, ok |-> FALSE, trap |-> FALSE]}
        Done(S1) == {[s |-> push(S1, v, st_item), ok |-> TRUE, trap |-> FALSE]}
    IN  IF ~ IS_LIST(S, st_obj) /\ ~ IS_STRING(S, st_obj) THEN Fail
        ELSE IF ~ IS_NUMBER(st_index) THEN Fail
        ELSE IF IS_LIST(S, st_obj)
        THEN IF ~ isValidListIndex(S.heap[st_obj.v], st_index.v) THEN Fail
             ELSE Done(storeToList(S, st_obj.v, st_index.v, st_item))
        ELSE IF ~ isValidStringIndex(S.heap[st_obj.v], st_index.v) THEN Fail
        ELSE IF ~ IS_STRING(S, st_item)
        THEN {[s |-> S, ok |-> FALSE, trap |-> TRUE]} \cup Fail
               \cup Done([S EXCEPT !.heap[st_obj.v].chars[st_index.v + 1] = "?"])
        ELSE IF Len(S.heap[st_item.v].chars) > 1 THEN Fail
        ELSE Done(storeToString(S, st_obj.v, st_index.v, st_item.v))

\* vm.cpp:1096-1144
OpIndexSet(t) ==
    /\ At(t, "INDEX_SET")
    /\ LET S0 == Fetch(t)
           S  == pop(pop(pop(S0, tvm[t]), tvm[t]), tvm[t])
       IN  \E R \in indexSet(S, tvm[t], peek(S0, tvm[t], 2), peek(S0, tvm[t], 1),
                             peek(S0, tvm[t], 0)) :
             IF R.trap
             THEN /\ proc' = "SIGSEGV"
                  /\ UNCHANGED << pc, vm, stack, heap, gvm, result >>
             ELSE IF ~ R.ok
             THEN runtimeError(t, R.s) /\ UNCHANGED proc
             ELSE Continue(t, R.s) /\ UNCHANGED proc
    /\ UNCHANGED << chunk, tvm, id_to_vm, thread_arr, id_to_vm_mtx, vm_pool_mtx,
                    new_thread, iter, nthreads, hist, out >>

\* vm.cpp:1059-1094
OpIndexGet(t) ==
    /\ At(t, "INDEX_GET")
    /\ LET S0       == Fetch(t)
           st_index == peek(S0, tvm[t], 0)
           st_obj   == peek(S0, tvm[t], 1)
           S        == pop(pop(S0, tvm[t]), tvm[t])
       IN  IF ~ IS_LIST(S, st_obj) /\ ~ IS_STRING(S, st_obj) THEN runtimeError(t, S)
           ELSE IF ~ IS_NUMBER(st_index) THEN runtimeError(t, S)
           ELSE IF IS_LIST(S, st_obj)
           THEN IF ~ isValidListIndex(S.heap[st_obj.v], st_index.v)
                THEN runtimeError(t, S)
                ELSE Continue(t, push(S, tvm[t], indexFromList(S, st_obj.v, st_index.v)))
           ELSE IF ~ isValidStringIndex(S.heap[st_obj.v], st_index.v)
           THEN runtimeError(t, S)
           ELSE LET c == indexFromString(S, id_to_vm[t], st_obj.v, st_index.v) IN
                Continue(t, push(c.s, tvm[t], ObjVal(c.r)))
    /\ UNCHANGED << Dispatch, out >>

RECURSIVE appendItems(_, _, _, _, _)
\* vm.cpp:1047-1049: appendToList(list, peek(i)) for i from `from` down to
\* `to`, the loop cut in two halves
appendItems(S, v, list, from, to) ==
    IF from < to THEN S
    ELSE IF from = to THEN appendToList(S, list, peek(S, v, from))
    ELSE CHOOSE R \in {appendItems(S1, v, list, (from + to) \div 2, to) :
                         S1 \in {appendItems(S, v, list, from,
                                              (from + to) \div 2 + 1)}} : TRUE

\* vm.cpp:1043-1057
OpBuildList(t) ==
    /\ At(t, "BUILD_LIST")
    /\ \E S0 \in {Fetch(t)} :
       \E S1 \in {push(newList(S0, id_to_vm[t]), tvm[t], ObjVal(NewId(S0)))} :
       \E S2 \in {appendItems(S1, tvm[t], NewId(S0), Operand(t), 1)} :
         Continue(t, push([S2 EXCEPT !.vm[tvm[t]].stackTop =
                                        Addr(@.vm, @.i - 1 - Operand(t))],
                          tvm[t], ObjVal(NewId(S0))))
    /\ UNCHANGED << Dispatch, out >>

\* An upvalue's location: a stack cell while it is open, its own closed
\* field afterwards
IsOpen(S, upvalue) == "vm" \in DOMAIN S.heap[upvalue].location

\* location > local on two Value*.  Cells of the VM pool are ordered by VM and
\* index; how the closed field of a heap object compares with a stack cell
\* depends on where the allocator put it (hi: above the stacks).
Above(S, upvalue, local, hi) ==
    LET l == S.heap[upvalue].location IN
    IF IsOpen(S, upvalue)
    THEN l.vm > local.vm \/ (l.vm = local.vm /\ l.i > local.i)
    ELSE hi

\* object.cpp:383-390
newUpvalue(S, cur, slot) ==
    LET S1 == allocateObject(S, cur, "upvalue", <<>>) IN
    [S1 EXCEPT !.heap[NewId(S)] = @ @@ [location |-> slot, closed |-> NilVal,
                                         next |-> NULL]]

\* vm.cpp:383-386: the walk down the list
RECURSIVE walkUpvalues(_, _, _, _, _)
walkUpvalues(S, prevUpvalue, upvalue, local, hi) ==
    IF upvalue # NULL /\ Above(S, upvalue, local, hi)
    THEN walkUpvalues(S, upvalue, S.heap[upvalue].next, local, hi)
    ELSE [prevUpvalue |-> prevUpvalue, upvalue |-> upvalue]

\* vm.cpp:376-401; cur is dispatcher->getVM() of the calling thread
captureUpvalue(S, cur, local, hi) ==
    LET w == walkUpvalues(S, NULL, S.vm[cur].openUpvalues, local, hi) IN
    IF w.upvalue # NULL /\ S.heap[w.upvalue].location = local
    THEN [s |-> S, r |-> w.upvalue]
    ELSE LET created == NewId(S)
             S1 == [newUpvalue(S, cur, local) EXCEPT !.heap[created].next = w.upvalue]
         IN  [s |-> IF w.prevUpvalue = NULL
                    THEN [S1 EXCEPT !.vm[cur].openUpvalues = created]
                    ELSE [S1 EXCEPT !.heap[w.prevUpvalue].next = created],
              r |-> created]

\* vm.cpp:412-422
RECURSIVE closeUpvalues(_, _, _, _)
closeUpvalues(S, cur, last, hi) ==
    LET upvalue == S.vm[cur].openUpvalues IN
    IF upvalue # NULL
         /\ (Above(S, upvalue, last, hi) \/ S.heap[upvalue].location = last)
    THEN LET l == S.heap[upvalue].location IN
         closeUpvalues(
            [S EXCEPT !.heap[upvalue].closed =
                          IF IsOpen(S, upvalue) THEN S.stack[l.vm][l.i] ELSE @,
                      !.heap[upvalue].location = [closed |-> upvalue],
                      !.vm[cur].openUpvalues = S.heap[upvalue].next],
            cur, last, hi)
    ELSE S

\* vm.cpp:733-746
OpReturn(t) ==
    /\ At(t, "RETURN")
    /\ \E S0 \in {closeUpvalues(Fetch(t), id_to_vm[t], vm[tvm[t]].slots, hi) :
                    hi \in BOOLEAN} :
       LET r  == peek(S0, tvm[t], 0)
           S1 == [pop(S0, tvm[t]) EXCEPT !.vm[tvm[t]].frameCount = @ - 1]
       IN  IF S1.vm[tvm[t]].frameCount = 0
           THEN /\ Set(pop(S1, tvm[t]))
                /\ pc' = [pc EXCEPT ![t] = "ret"]
                /\ result' = [result EXCEPT ![t] = "OK"]
           ELSE Continue(t, push([S1 EXCEPT !.vm[tvm[t]].stackTop = S1.vm[tvm[t]].slots],
                                 tvm[t], r))
    /\ UNCHANGED << Dispatch, out >>

\* vm.cpp:857-871 with newClosure (object.cpp:401-413).  The operand names the
\* function constant and, for each upvalue, isLocal and index; the modelled
\* scripts capture locals of the enclosing frame only.
RECURSIVE captureAll(_, _, _, _, _, _, _)
captureAll(S, v, cur, closure, ups, i, hi) ==
    IF i > Len(ups) THEN S
    ELSE CHOOSE R \in
           {captureAll([c.s EXCEPT !.heap[closure].upvalues[i] = c.r],
                       v, cur, closure, ups, i + 1, hi) :
              c \in {captureUpvalue(S, cur, SlotAddr(S, v, ups[i].index), hi)}} : TRUE

OpClosure(t) ==
    /\ At(t, "CLOSURE")
    /\ LET S0       == Fetch(t)
           function == chunk.constants[Operand(t).fn].v
           ups      == Operand(t).upvalues
           closure  == NewId(S0)
           S1 == newClosure(reallocate(S0, 0, 8 * Len(ups)), id_to_vm[t], function)
           S2 == push([S1 EXCEPT !.heap[closure] =
                          @ @@ [upvalues |-> [i \in 1..Len(ups) |-> NULL]]],
                      tvm[t], ObjVal(closure))
       IN  \E S3 \in {captureAll(S2, tvm[t], id_to_vm[t], closure, ups, 1, hi) :
                        hi \in BOOLEAN} : Continue(t, S3)
    /\ UNCHANGED << Dispatch, out >>

\* vm.cpp:956-960
OpCloseUpvalue(t) ==
    /\ At(t, "CLOSE_UPVALUE")
    /\ LET S0 == Fetch(t)
           a  == S0.vm[tvm[t]].stackTop
       IN  \E S1 \in {closeUpvalues(S0, id_to_vm[t], Addr(a.vm, a.i - 1), hi) :
                        hi \in BOOLEAN} : Continue(t, pop(S1, tvm[t]))
    /\ UNCHANGED << Dispatch, out >>

\* vm.cpp:1145-1148
OpFinishBegin(t) ==
    /\ At(t, "FINISH_BEGIN")
    /\ vm[tvm[t]].finishStackCount < MaxFinish
    /\ Continue(t, [Fetch(t) EXCEPT !.vm[tvm[t]].finishStackCount = @ + 1])
    /\ UNCHANGED << Dispatch, out >>

\* What leaving a finish block records: the children spawned inside it
CloseFinish(t) == [hist EXCEPT !.closed = @ \cup {c \in Children : hist.finishOf[c] = t}]

FinishLeave(t) ==
    [Fetch(t) EXCEPT !.vm[tvm[t]].finishStack[vm[tvm[t]].finishStackCount] = <<>>,
                     !.vm[tvm[t]].finishStackCount = @ - 1]

\* vm.cpp:1149-1158.  Every element of the list is the address of the local
\* new_thread of ASYNC_BEGIN, whose lifetime has ended.  Where the storage
\* still holds the handle constructed last, the first element joins that
\* thread and the others find it not joinable.
OpFinishEnd(t) ==
    /\ At(t, "FINISH_END")
    /\ LET h == new_thread[t] IN
       /\ vm[tvm[t]].finishStack[vm[tvm[t]].finishStackCount] # <<>> /\ h # NoThread
             => pc[h] = "done"
       /\ new_thread' = IF vm[tvm[t]].finishStack[vm[tvm[t]].finishStackCount] # <<>>
                        THEN [new_thread EXCEPT ![t] = NoThread]
                        ELSE new_thread
    /\ Continue(t, FinishLeave(t))
    /\ hist' = CloseFinish(t)
    /\ UNCHANGED << chunk, proc, tvm, id_to_vm, thread_arr, id_to_vm_mtx, vm_pool_mtx,
                    iter, nthreads, out >>

\* vm.cpp:1149-1158 where the storage has been reused since: the bytes read
\* as a handle that is not joinable, and nothing is joined
OpFinishEndSkip(t) ==
    /\ At(t, "FINISH_END")
    /\ vm[tvm[t]].finishStack[vm[tvm[t]].finishStackCount] # <<>>
    /\ Continue(t, FinishLeave(t))
    /\ hist' = CloseFinish(t)
    /\ UNCHANGED << chunk, proc, tvm, id_to_vm, thread_arr, id_to_vm_mtx, vm_pool_mtx,
                    new_thread, iter, nthreads, out >>

\* vm.cpp:1149-1158 where the storage has been reused since: the bytes read
\* as a joinable handle of no thread, and join() on it ends the process
OpFinishEndCrash(t) ==
    /\ At(t, "FINISH_END")
    /\ vm[tvm[t]].finishStack[vm[tvm[t]].finishStackCount] # <<>>
    /\ proc' = "SIGSEGV"
    /\ UNCHANGED << chunk, pc, tvm, vm, stack, heap, gvm, id_to_vm, thread_arr,
                    id_to_vm_mtx, vm_pool_mtx, new_thread, iter, out, nthreads,
                    result, hist >>

---------------------------------------------------------------------------
(* Dispatcher (dispatcher.cpp).  thread_arr is a std::vector: a buffer, a  *)
(* size and a capacity.  erase() moves the elements behind the erased one  *)
(* down and leaves the last cell as it was; push_back() on a full vector   *)
(* moves to a new buffer and frees the old one.                            *)

InArr(x) == \E j \in 1..thread_arr.n : thread_arr.buf[j] = x

\* dispatcher.cpp:168-171
set_active_thread(arr, x) ==
    IF arr.n < arr.cap
    THEN [arr EXCEPT !.buf = [j \in 1..(IF arr.n + 1 > Len(arr.buf) THEN arr.n + 1 ELSE Len(arr.buf)) |->
                                 IF j = arr.n + 1 THEN x ELSE arr.buf[j]],
                     !.n = @ + 1]
    ELSE [buf |-> SubSeq(arr.buf, 1, arr.n) \o << x >>, n |-> arr.n + 1,
          cap |-> 2 * arr.cap]

\* dispatcher.cpp:173-181
free_active_thread(arr, x) ==
    IF \E j \in 1..arr.n : arr.buf[j] = x
    THEN LET p == CHOOSE j \in 1..arr.n : arr.buf[j] = x /\ \A k \in 1..(j - 1) : arr.buf[k] # x
         IN  [arr EXCEPT !.buf = [j \in 1..Len(arr.buf) |->
                                     IF j >= p /\ j < arr.n THEN arr.buf[j + 1] ELSE arr.buf[j]],
                         !.n = @ - 1]
    ELSE arr

\* The buffer a range-for started on, kept by the iterating threads when
\* push_back() frees it
Orphan(arr, arr2) ==
    [u \in Threads |->
        IF pc[u] = "term" /\ iter[u].old = <<>> /\ arr2.cap # arr.cap
        THEN [iter[u] EXCEPT !.old = arr.buf]
        ELSE iter[u]]

\* childMain, dispatcher.cpp:17 with setId (dispatcher.cpp:50-54): the
\* critical section holds the one write
ChildSetId(t) ==
    /\ proc = "running" /\ pc[t] = "start"
    /\ id_to_vm_mtx = NoThread
    /\ id_to_vm' = [id_to_vm EXCEPT ![t] = tvm[t]]
    /\ pc' = [pc EXCEPT ![t] = "setActive"]
    /\ UNCHANGED << chunk, proc, tvm, vm, stack, heap, gvm, thread_arr, id_to_vm_mtx,
                    vm_pool_mtx, new_thread, iter, out, nthreads, result, hist >>

\* childMain, dispatcher.cpp:18-21: set_active_thread, then run() is entered
ChildSetActive(t) ==
    /\ proc = "running" /\ pc[t] = "setActive"
    /\ thread_arr' = set_active_thread(thread_arr, t)
    /\ iter' = Orphan(thread_arr, thread_arr')
    /\ pc' = [pc EXCEPT ![t] = "run"]
    /\ UNCHANGED << chunk, proc, tvm, vm, stack, heap, gvm, id_to_vm, id_to_vm_mtx,
                    vm_pool_mtx, new_thread, out, nthreads, result, hist >>

\* Dispatcher::freeVM taking vm_pool_mtx first
AsyncEndLock1_poolFirst(t) ==
    /\ At(t, "ASYNC_END")
    /\ vm_pool_mtx = NoThread
    /\ vm_pool_mtx' = t
    /\ pc' = [pc EXCEPT ![t] = "free1"]
    /\ UNCHANGED << chunk, proc, tvm, vm, stack, heap, gvm, id_to_vm, thread_arr,
                    id_to_vm_mtx, new_thread, iter, out, nthreads, result, hist >>

\* vm.cpp:1172-1177 with Dispatcher::freeVM (dispatcher.cpp:114-128): lock1
AsyncEndLock1(t) ==
    /\ At(t, "ASYNC_END")
    /\ id_to_vm_mtx = NoThread
    /\ id_to_vm_mtx' = t
    /\ pc' = [pc EXCEPT ![t] = "free1"]
    /\ UNCHANGED << chunk, proc, tvm, vm, stack, heap, gvm, id_to_vm, thread_arr,
                    vm_pool_mtx, new_thread, iter, out, nthreads, result, hist >>

\* Dispatcher::freeVM (dispatcher.cpp:114-128): lock2
AsyncEndLock2(t) ==
    /\ proc = "running" /\ pc[t] = "free1"
    /\ vm_pool_mtx = NoThread
    /\ vm_pool_mtx' = t
    /\ pc' = [pc EXCEPT ![t] = "free2"]
    /\ UNCHANGED << chunk, proc, tvm, vm, stack, heap, gvm, id_to_vm, thread_arr,
                    id_to_vm_mtx, new_thread, iter, out, nthreads, result, hist >>

\* memory.cpp:198-250: FREE_ARRAY<char>(chars, length + 1) of a string,
\* FREE_ARRAY<Value>(items, count) of a list, then the object itself
freeObject(S, object) ==
    LET o  == S.heap[object]
        S1 == IF o.type = "string" THEN reallocate(S, Len(o.chars) + 1, 0)
              ELSE IF o.type = "list" THEN reallocate(S, ValueSize * Len(o.items), 0)
              ELSE S
    IN  [reallocate(S1, SizeOf(o.type), 0) EXCEPT !.heap[object].type = "freed"]

\* the objects freed are those of the main thread's VM
freeObjects_ofMain(S) ==
    Then(S, LAMBDA S0 :
      [S0 EXCEPT !.heap = [o \in DOMAIN S0.heap |->
                             IF \E j \in 1..Len(S0.vm[0].objects) : S0.vm[0].objects[j] = o
                             THEN freeObject(S0, o).heap[o] ELSE S0.heap[o]]])

RECURSIVE freeFrom(_, _)
\* memory.cpp:262-267: freeObject of the objects of VM::getVM() from the
\* i-th on; the list head is left as it is
freeFrom(S0, i) ==
    Then(S0, LAMBDA S :
      IF i > Len(S.gvm.objects) THEN S
      ELSE freeFrom(freeObject(S, S.gvm.objects[i]), i + 1))

\* memory.cpp:259-269; free(vm->grayStack) leaves the field as it is
freeObjects(S) == freeFrom(S, 1)

\* A VM::freeVM that leaves the slot marked as taken
freeVM_keepsAssigned(S, v) ==
    freeObjects([S EXCEPT !.vm[v].globals = {},
                          !.vm[v].strings = {},
                          !.vm[v].initString = NULL,
                          !.vm[v].parent = NoVM])

\* vm.cpp:469-477.  freeObjects() walks the object list of VM::getVM(), not
\* the list of this VM.
freeVM(S, v) ==
    freeObjects([S EXCEPT !.vm[v].globals = {},
                          !.vm[v].strings = {},
                          !.vm[v].initString = NULL,
                          !.vm[v].assigned = FALSE,
                          !.vm[v].parent = NoVM])

\* Dispatcher::freeVM (dispatcher.cpp:119-128) under both locks, which it
\* releases on return
AsyncEndFree(t) ==
    /\ proc = "running" /\ pc[t] = "free2"
    /\ IF id_to_vm[t] = NoVM
       THEN /\ proc' = "exit(0)"
            /\ UNCHANGED << vm, stack, heap, gvm, id_to_vm, pc,
                            id_to_vm_mtx, vm_pool_mtx >>
       ELSE /\ Set(freeVM(Fetch(t), id_to_vm[t]))
            /\ id_to_vm' = [id_to_vm EXCEPT ![t] = NoVM]
            /\ id_to_vm_mtx' = NoThread
            /\ vm_pool_mtx' = NoThread
            /\ pc' = [pc EXCEPT ![t] = "freed"]
            /\ proc' = proc
    /\ UNCHANGED << chunk, tvm, thread_arr, new_thread, iter, out, nthreads, result,
                    hist >>

\* vm.cpp:1175-1176: pop() on the VM run() was entered on, and return
\* INTERPRET_OK
AsyncEndPop(t) ==
    /\ proc = "running" /\ pc[t] = "freed"
    /\ Set(pop(Mach, tvm[t]))
    /\ pc' = [pc EXCEPT ![t] = "ret"]
    /\ result' = [result EXCEPT ![t] = "OK"]
    /\ UNCHANGED << chunk, proc, tvm, id_to_vm, thread_arr, id_to_vm_mtx, vm_pool_mtx,
                    new_thread, iter, out, nthreads, hist >>

\* vm.cpp:1159-1163 with asyncBegin (dispatcher.cpp:137): getVM()
AsyncGetVM(t) ==
    /\ At(t, "ASYNC_BEGIN")
    /\ nthreads < PoolSize
    /\ IF id_to_vm[t] = NoVM
       THEN proc' = "exit(0)" /\ pc' = pc
       ELSE proc' = proc /\ pc' = [pc EXCEPT ![t] = "asyncFind"]
    /\ UNCHANGED << chunk, tvm, vm, stack, heap, gvm, id_to_vm, thread_arr, id_to_vm_mtx,
                    vm_pool_mtx, new_thread, iter, out, nthreads, result, hist >>

\* dispatcher.cpp:69-79
findFreeVM ==
    IF \E i \in 0..(PoolSize - 1) : ~vm[i].assigned
    THEN CHOOSE i \in 0..(PoolSize - 1) :
             ~vm[i].assigned /\ \A j \in 0..(i - 1) : vm[j].assigned
    ELSE -1

\* asyncBegin (dispatcher.cpp:138-139): findFreeVM() under vm_pool_mtx;
\* the result is kept as the childVM of the thread about to be created
AsyncFindFreeVM(t) ==
    /\ proc = "running" /\ pc[t] = "asyncFind"
    /\ vm_pool_mtx = NoThread
    /\ LET i == findFreeVM IN
       /\ vm' = IF i = -1 THEN vm ELSE [vm EXCEPT ![i].assigned = TRUE]
       /\ tvm' = [tvm EXCEPT ![nthreads + 1] = i]
    /\ pc' = [pc EXCEPT ![t] = "asyncCopy"]
    /\ UNCHANGED << chunk, proc, stack, heap, gvm, id_to_vm, thread_arr, id_to_vm_mtx,
                    vm_pool_mtx, new_thread, iter, out, nthreads, result, hist >>

\* asyncBegin (dispatcher.cpp:140-146) and the rest of the ASYNC_BEGIN
\* handler (vm.cpp:1166-1170): the child VM is set up from the parent, the
\* child's ip steps over the jump operand, the thread is created, its
\* handle is moved into new_thread, the address of new_thread is pushed
\* on the finish list, and the parent jumps behind the block.
Spawn(t, i) ==
    LET c  == nthreads + 1
        S1 == copyParent(Mach, i, id_to_vm[t], id_to_vm[t])
        S2 == [S1 EXCEPT !.vm[i].ip = @ + 1]
        S3 == [S2 EXCEPT !.vm[tvm[t]].finishStack[S2.vm[tvm[t]].finishStackCount] =
                             Append(@, t),
                         !.vm[tvm[t]].ip = @ + 1 + Operand(t)]
    IN  /\ Set(S3)
        /\ nthreads' = c
        /\ new_thread' = [new_thread EXCEPT ![t] = c]
        /\ pc' = [pc EXCEPT ![t] = "run", ![c] = "start"]
        /\ hist' = [hist EXCEPT !.finishOf[c] =
                       IF vm[tvm[t]].finishStackCount > 0 THEN t ELSE hist.finishOf[t]]
        /\ UNCHANGED << chunk, proc, tvm, id_to_vm, thread_arr, id_to_vm_mtx,
                        vm_pool_mtx, iter, out, result >>

AsyncSpawn(t) ==
    /\ proc = "running" /\ pc[t] = "asyncCopy"
    /\ tvm[nthreads + 1] # -1
    /\ Spawn(t, tvm[nthreads + 1])

\* asyncBegin does not test the -1 of a full pool: childVM is vm_pool[-1],
\* the storage in front of the pool.  The writes of copyParent either fault
\* or land there, and the child then runs on that storage.
AsyncSpawnOutOfPool(t) ==
    /\ proc = "running" /\ pc[t] = "asyncCopy"
    /\ tvm[nthreads + 1] = -1
    /\ \/ Spawn(t, -1)
       \/ /\ proc' = "SIGSEGV"
          /\ UNCHANGED << chunk, pc, tvm, vm, stack, heap, gvm, id_to_vm, thread_arr,
                          id_to_vm_mtx, vm_pool_mtx, new_thread, iter, out, nthreads,
                          result, hist >>

\* childMain, dispatcher.cpp:26: run() returned INTERPRET_OK
ChildFreeActive(t) ==
    /\ proc = "running" /\ pc[t] = "ret" /\ t # MainThread
    /\ result[t] # "RUNTIME_ERROR"
    /\ thread_arr' = free_active_thread(thread_arr, t)
    /\ pc' = [pc EXCEPT ![t] = "done"]
    /\ UNCHANGED << chunk, proc, tvm, vm, stack, heap, gvm, id_to_vm, id_to_vm_mtx,
                    vm_pool_mtx, new_thread, iter, out, nthreads, result, hist >>

\* childMain, dispatcher.cpp:22-23 and terminateAllThreads (dispatcher.cpp:
\* 183-185): the range-for takes begin() and end() once
TermBegin(t) ==
    /\ proc = "running" /\ pc[t] = "ret" /\ t # MainThread
    /\ result[t] = "RUNTIME_ERROR"
    /\ iter' = [iter EXCEPT ![t] = [i |-> 1, e |-> thread_arr.n, old |-> <<>>]]
    /\ hist' = [hist EXCEPT !.atCall = {x \in Threads : InArr(x)}]
    /\ pc' = [pc EXCEPT ![t] = "term"]
    /\ UNCHANGED << chunk, proc, tvm, vm, stack, heap, gvm, id_to_vm, thread_arr,
                    id_to_vm_mtx, vm_pool_mtx, new_thread, out, nthreads, result >>

\* dispatcher.cpp:186-187 for the element x: id_to_vm[x] inserts the value 0
\* for a key that is not in the map
Flag(t, x) ==
    LET slot == IF x \in Threads /\ id_to_vm[x] # NoVM THEN id_to_vm[x] ELSE 0 IN
    /\ id_to_vm' = IF x \in Threads THEN [id_to_vm EXCEPT ![x] = slot] ELSE id_to_vm
    /\ vm' = [vm EXCEPT ![slot].threadFailure = TRUE]
    /\ iter' = [iter EXCEPT ![t].i = @ + 1]
    /\ UNCHANGED << chunk, proc, pc, tvm, stack, heap, gvm, thread_arr, id_to_vm_mtx,
                    vm_pool_mtx, new_thread, out, nthreads, result, hist >>

\* terminateAllThreads (dispatcher.cpp:185-188): one element of the buffer
TermStep(t) ==
    /\ proc = "running" /\ pc[t] = "term"
    /\ iter[t].i <= iter[t].e /\ iter[t].old = <<>>
    /\ Flag(t, thread_arr.buf[iter[t].i])

\* The same on a buffer that push_back() has freed: the cell holds what it
\* held, or what the allocator has written there since
TermStepFreed(t) ==
    /\ proc = "running" /\ pc[t] = "term"
    /\ iter[t].i <= iter[t].e /\ iter[t].old # <<>>
    /\ \E x \in {iter[t].old[iter[t].i], NoThread} : Flag(t, x)

\* terminateAllThreads returns
TermEnd(t) ==
    /\ proc = "running" /\ pc[t] = "term"
    /\ iter[t].i > iter[t].e
    /\ pc' = [pc EXCEPT ![t] = "exit"]
    /\ UNCHANGED << chunk, proc, tvm, vm, stack, heap, gvm, id_to_vm, thread_arr,
                    id_to_vm_mtx, vm_pool_mtx, new_thread, iter, out, nthreads, result,
                    hist >>

\* childMain, dispatcher.cpp:24
ChildExit(t) ==
    /\ proc = "running" /\ pc[t] = "exit"
    /\ proc' = "exit(0)"
    /\ UNCHANGED << chunk, pc, tvm, vm, stack, heap, gvm, id_to_vm, thread_arr,
                    id_to_vm_mtx, vm_pool_mtx, new_thread, iter, out, nthreads, result,
                    hist >>

\* main.cpp:82-92: interpret() has returned on the main thread
MainExit ==
    /\ proc = "running" /\ pc[MainThread] = "ret"
    /\ proc' = CASE result[MainThread] = "COMPILE_ERROR" -> "exit(65)"
                  [] result[MainThread] = "RUNTIME_ERROR" -> "exit(70)"
                  [] OTHER -> "exit(0)"
    /\ UNCHANGED << chunk, pc, tvm, vm, stack, heap, gvm, id_to_vm, thread_arr,
                    id_to_vm_mtx, vm_pool_mtx, new_thread, iter, out, nthreads, result,
                    hist >>

Step(t) ==
    \/ OpConstant(t) \/ OpNil(t) \/ OpTrue(t) \/ OpPop(t)
    \/ OpGetLocal(t) \/ OpSetLocal(t) \/ OpEqual(t) \/ OpPrint(t)
    \/ OpJumpIfFalse(t) \/ OpLoop(t) \/ OpNegate(t) \/ OpAdd(t)
    \/ OpIndexSet(t) \/ OpReturn(t)
    \/ OpFinishBegin(t) \/ OpFinishEnd(t) \/ OpFinishEndSkip(t) \/ OpFinishEndCrash(t)
    \/ AsyncGetVM(t) \/ AsyncFindFreeVM(t) \/ AsyncSpawn(t) \/ AsyncSpawnOutOfPool(t)
    \/ ChildSetId(t) \/ ChildSetActive(t)
    \/ AsyncEndLock1(t) \/ AsyncEndLock2(t) \/ AsyncEndFree(t) \/ AsyncEndPop(t)
    \/ ChildFreeActive(t) \/ TermBegin(t) \/ TermStep(t) \/ TermStepFreed(t)
    \/ TermEnd(t) \/ ChildExit(t)

Next == (\E t \in Threads : Step(t)) \/ MainExit

Spec == Init /\ [][Next]_vars

---------------------------------------------------------------------------
(* The hash table of table.cpp as it is laid out in memory (the build with *)
(* neither ENABLE_MP nor ENABLE_MTHM): an array of capacity entries that   *)
(* is probed linearly.  An entry is empty (key NULL, value nil), a         *)
(* tombstone (key NULL, value true) or live.  Entry i of the code is       *)
(* entries[i + 1] here.  A hash is a uint32_t, kept as two 16-bit halves.  *)

Letters ==
    << "a","b","c","d","e","f","g","h","i","j","k","l","m",
       "n","o","p","q","r","s","t","u","v","w","x","y","z" >>

\* (uint8_t)key[i]
Code(c) == IF c = "_" THEN 95
           ELSE 96 + (CHOOSE j \in 1..Len(Letters) : Letters[j] = c)

RECURSIVE Xor(_, _)
Xor(a, b) == IF a = 0 THEN b
             ELSE IF b = 0 THEN a
             ELSE ((a + b) % 2) + 2 * Xor(a \div 2, b \div 2)

\* hash ^= byte; hash *= 16777619 (0x01000193) on uint32_t
HashStep(h, byte) ==
    LET lo == Xor(h.lo, byte)
        m  == lo * 403
    IN  [hi |-> (h.hi * 403 + (m \div 65536) + (lo % 256) * 256) % 65536,
         lo |-> m % 65536]

\* object.cpp:23-41 (FNV-1a from 2166136261 = 0x811C9DC5)
RECURSIVE hashString(_, _, _)
hashString(key, i, hash) ==
    IF i > Len(key) THEN hash
    ELSE hashString(key, i + 1, HashStep(hash, Code(key[i])))

HashOf(chars) == hashString(chars, 1, [hi |-> 33052, lo |-> 40389])

EmptyEntry == [key |-> NULL, value |-> NilVal]

\* the probe takes the first tombstone it meets for the end of the sequence
RECURSIVE findEntryFrom_stopsAtTombstone(_, _, _, _, _, _)
findEntryFrom_stopsAtTombstone(entries, capacity, key, index, tombstone, n) ==
    LET entry == entries[index + 1] IN
    IF n > capacity THEN -1
    ELSE IF entry.key = NULL THEN index
    ELSE IF entry.key = key THEN index
    ELSE findEntryFrom_stopsAtTombstone(entries, capacity, key, (index + 1) % capacity,
                                        tombstone, n + 1)

\* table.cpp:218-233, reading key->hash from the heap: the first entry of
\* the probe sequence that holds the key, or the first tombstone passed, or
\* the empty entry that ends the sequence.  (n counts the probes: the loop
\* of the code has no other end than these returns.)
RECURSIVE findEntryFrom(_, _, _, _, _, _)
findEntryFrom(entries, capacity, key, index, tombstone, n) ==
    LET entry == entries[index + 1] IN
    IF n > capacity THEN -1
    ELSE IF entry.key = NULL
    THEN IF entry.value = NilVal
         THEN (IF tombstone # -1 THEN tombstone ELSE index)
         ELSE findEntryFrom(entries, capacity, key, (index + 1) % capacity,
                            IF tombstone = -1 THEN index ELSE tombstone, n + 1)
    ELSE IF entry.key = key THEN index
    ELSE findEntryFrom(entries, capacity, key, (index + 1) % capacity, tombstone, n + 1)

\* table.cpp:141-235
findEntry(hp, entries, capacity, key) ==
    findEntryFrom(entries, capacity, key, hp[key].hash.lo % capacity, -1, 0)

\* table.cpp:291-302: the live entries of the old array, in index order,
\* are put into the new one; count goes up by one for each
RECURSIVE rehash(_, _, _, _, _)
rehash(hp, tbl, new, capacity, i) ==
    IF i >= tbl.capacity THEN new
    ELSE IF tbl.entries[i + 1].key = NULL THEN rehash(hp, tbl, new, capacity, i + 1)
    ELSE LET dest == findEntry(hp, new.entries, capacity, tbl.entries[i + 1].key) IN
         rehash(hp, tbl,
                [new EXCEPT !.entries[dest + 1] = tbl.entries[i + 1], !.count = @ + 1],
                capacity, i + 1)

\* table.cpp:237-308.  count is not set back before the live entries are
\* counted again.
adjustCapacity(hp, tbl, capacity) ==
    LET new == rehash(hp, tbl,
                      [count |-> tbl.count, capacity |-> tbl.capacity,
                       entries |-> [j \in 1..capacity |-> EmptyEntry]],
                      capacity, 0)
    IN  [new EXCEPT !.capacity = capacity]

\* the table grows when it is first used and never again
tableSet_growsOnce(hp, tbl, key, value) ==
    LET t1 == IF tbl.capacity = 0
              THEN adjustCapacity(hp, tbl, GROW_CAPACITY(tbl.capacity))
              ELSE tbl
        e  == findEntry(hp, t1.entries, t1.capacity, key)
    IN  IF e = -1 THEN t1
        ELSE [t1 EXCEPT !.count = @ + 1,
                        !.entries[e + 1] = [key |-> key, value |-> value]]

\* table.cpp:415-456 (count + 1 > capacity * 0.75)
Table_tableSet(hp, tbl, key, value) ==
    LET t1 == IF 4 * (tbl.count + 1) > 3 * tbl.capacity
              THEN adjustCapacity(hp, tbl, GROW_CAPACITY(tbl.capacity))
              ELSE tbl
        e  == findEntry(hp, t1.entries, t1.capacity, key)
        isNewKey == t1.entries[e + 1].key = NULL
        inc == (IF isNewKey /\ t1.entries[e + 1].value = NilVal THEN 1 ELSE 0)
               + (IF isNewKey THEN 1 ELSE 0)
    IN  [t1 EXCEPT !.count = @ + inc,
                   !.entries[e + 1] = [key |-> key, value |-> value]]

\* the entry is left as it is
tableDelete_keepsEntry(hp, tbl, key) == tbl

\* table.cpp:512-545
tableDelete(hp, tbl, key) ==
    IF tbl.count = 0 THEN tbl
    ELSE LET e == findEntry(hp, tbl.entries, tbl.capacity, key) IN
         IF tbl.entries[e + 1].key = NULL THEN tbl
         ELSE [tbl EXCEPT !.entries[e + 1] = [key |-> NULL, value |-> BoolVal(TRUE)]]

\* table.cpp:622-638: NULL at an empty entry, else the first key of the
\* probe sequence with this length, hash and bytes
RECURSIVE findStringFrom(_, _, _, _, _, _)
findStringFrom(hp, tbl, chars, hash, index, n) ==
    LET entry == tbl.entries[index + 1] IN
    IF n > tbl.capacity THEN -1
    ELSE IF entry.key = NULL /\ entry.value = NilVal THEN NULL
    ELSE IF entry.key # NULL /\ Len(hp[entry.key].chars) = Len(chars)
            /\ hp[entry.key].hash = hash /\ hp[entry.key].chars = chars
    THEN entry.key
    ELSE findStringFrom(hp, tbl, chars, hash, (index + 1) % tbl.capacity, n + 1)

\* table.cpp:555-641
Table_tableFindString(hp, tbl, chars, hash) ==
    IF tbl.count = 0 THEN NULL
    ELSE findStringFrom(hp, tbl, chars, hash, hash.lo % tbl.capacity, 0)

---------------------------------------------------------------------------
(* Interning on the table as laid out (object.cpp).  The array of a table  *)
(* is allocated through reallocate, 24 bytes an Entry.                     *)

\* object.cpp:230-250
Table_allocateString(S, cur, chars, hash) ==
    LET id == NewId(S)
        S1 == allocateObject(S, cur, "string", chars)
        S2 == push([S1 EXCEPT !.heap[id].hash = hash], cur, ObjVal(id))
        t  == Table_tableSet(S2.heap, S2.vm[cur].strings, id, NilVal)
        S3 == reallocate([S2 EXCEPT !.vm[cur].strings = t],
                         24 * S2.vm[cur].strings.capacity, 24 * t.capacity)
    IN  pop(S3, cur)

\* object.cpp:264-291
Table_copyString(S, cur, chars) ==
    LET hash     == HashOf(chars)
        interned == Table_tableFindString(S.heap, S.vm[cur].strings, chars, hash)
    IN  IF interned # NULL THEN [s |-> S, r |-> interned]
        ELSE LET S1 == reallocate(S, 0, Len(chars) + 1) IN
             [s |-> Table_allocateString(S1, cur, chars, hash), r |-> NewId(S1)]

\* object.cpp:309-318
Table_takeString(S, cur, chars) ==
    [s |-> Table_allocateString(S, cur, chars, HashOf(chars)), r |-> NewId(S)]

\* Contents the modelled scripts intern, concatenate to and assign from
InternStrings == { <<"b">>, <<"a","b">>, <<"b","b">> }

\* String objects the modelled scripts create
MaxObjs == 4
\* Index assignments the modelled scripts make
MaxStores == 1

\* The main thread alone, on slot 0, as dispatchThread(NULL) registers it
MainOnly ==
    /\ proc = "running"
    /\ pc = [t \in Threads |-> IF t = MainThread THEN "run" ELSE "unborn"]
    /\ tvm = [t \in Threads |-> IF t = MainThread THEN 0 ELSE NoVM]
    /\ id_to_vm = [t \in Threads |-> IF t = MainThread THEN 0 ELSE NoVM]
    /\ thread_arr = [buf |-> << MainThread >>, n |-> 1, cap |-> 1]
    /\ id_to_vm_mtx = NoThread
    /\ vm_pool_mtx = NoThread
    /\ new_thread = [t \in Threads |-> NoThread]
    /\ iter = [t \in Threads |-> [i |-> 0, e |-> 0, old |-> <<>>]]
    /\ out = <<>>
    /\ nthreads = 0
    /\ result = [t \in Threads |-> "none"]

Others == << chunk, proc, pc, tvm, id_to_vm, thread_arr, id_to_vm_mtx, vm_pool_mtx,
             new_thread, iter, out, nthreads, result >>

\* initVM (vm.cpp:437-447) on slot 0 up to strings.initTable()
InitIntern ==
    /\ MainOnly
    /\ chunk = [src |-> "intern", code |-> <<>>, constants |-> <<>>]
    /\ vm = [BlankMach.vm EXCEPT ![0].assigned = TRUE,
                                 ![0].stackTop = Addr(0, 1),
                                 ![0].strings = initTable]
    /\ stack = BlankMach.stack
    /\ heap = BlankMach.heap
    /\ gvm = BlankMach.gvm
    /\ hist = [op |-> "none", chars |-> <<>>, r |-> NULL, stores |-> 0,
               literal |-> [c \in InternStrings |-> NULL]]

\* A string literal, a native's input or an indexed character: copyString
InternCopy(c) ==
    /\ Len(heap) < MaxObjs
    /\ LET R == Table_copyString(Mach, 0, c) IN
       /\ Set(R.s)
       /\ hist' = [hist EXCEPT !.op = "copyString", !.chars = c, !.r = R.r,
                               !.literal[c] = IF @ = NULL THEN R.r ELSE @]
    /\ UNCHANGED Others

\* concatenate (vm.cpp:529-544): takeString of the joined characters
InternTake(c) ==
    /\ Len(heap) < MaxObjs
    /\ LET R == Table_takeString(Mach, 0, c) IN
       /\ Set(R.s)
       /\ hist' = [hist EXCEPT !.op = "takeString", !.chars = c, !.r = R.r]
    /\ UNCHANGED Others

\* OP_INDEX_SET on a string (vm.cpp:1123-1141): storeToString
InternStore(string, index, item) ==
    /\ hist.stores < MaxStores
    /\ isValidStringIndex(heap[string], index)
    /\ Len(heap[item].chars) <= 1
    /\ Set(storeToString(Mach, string, index, item))
    /\ hist' = [hist EXCEPT !.op = "storeToString", !.chars = heap[string].chars,
                            !.r = string, !.stores = @ + 1]
    /\ UNCHANGED Others

NextIntern ==
    \/ \E c \in InternStrings : InternCopy(c)
    \/ \E c \in InternStrings : InternTake(c)
    \/ \E string, item \in 1..Len(heap) : \E index \in 0..1 :
          InternStore(string, index, item)

SpecIntern == InitIntern /\ [][NextIntern]_vars

(***************************************************************************)
(* Garbage collector (memory.cpp).  Every function of the collector takes  *)
(* its VM from VM::getVM(), the singleton `gvm`; the objects of a running  *)
(* script are linked into the list of dispatcher->getVM() (object.cpp:121). *)
(***************************************************************************)

\* memory.cpp:68-90
markObject(S, object) ==
    IF object = NULL \/ S.heap[object].isMarked THEN S
    ELSE [S EXCEPT !.heap[object].isMarked = TRUE,
                   !.gvm.grayStack = Append(@, object),
                   !.gvm.grayCount = @ + 1]

\* memory.cpp:101-105
markValue(S, value) == IF IS_OBJ(value) THEN markObject(S, value.v) ELSE S

\* memory.cpp:116-121
RECURSIVE markArray(_, _, _)
markArray(S, array, i) ==
    IF i > Len(array) THEN S ELSE markArray(markValue(S, array[i]), array, i + 1)

\* table.cpp:650-657
RECURSIVE markTable(_, _, _)
markTable(S, tbl, i) ==
    IF i > tbl.capacity THEN S
    ELSE markTable(markValue(markObject(S, tbl.entries[i].key), tbl.entries[i].value),
                   tbl, i + 1)

\* memory.cpp:133-187; the scripts create closures without upvalues,
\* unnamed functions, natives and strings
blackenObject(S, object) ==
    CASE S.heap[object].type = "closure" -> markObject(S, S.heap[object].function)
      [] S.heap[object].type = "function" -> markArray(markObject(S, NULL), chunk.constants, 1)
      [] OTHER -> S

\* memory.cpp:279-295 on VM::getVM(): gvm.stack holds the slots
\* stack <= slot < stackTop (the only pushes on that stack are undone before
\* addConstant returns); then the closures of the frames, the open upvalues,
\* the globals and the init string; no function is under compilation while a
\* script runs
RECURSIVE markSlots(_, _)
markSlots(S, i) ==
    IF i > Len(S.gvm.stack) THEN S
    ELSE markSlots(markValue(S, S.gvm.stack[i]), i + 1)

RECURSIVE markFrames(_, _)
markFrames(S, i) ==
    IF i > S.gvm.frameCount THEN S
    ELSE markFrames(markObject(S, S.gvm.frames[i].closure), i + 1)

markRoots(S) ==
    LET S1 == markFrames(markSlots(S, 1), 1)
        S2 == markObject(S1, S1.gvm.openUpvalues)
        S3 == markTable(S2, S2.gvm.globals, 1)
    IN  markObject(S3, S3.gvm.initString)

\* memory.cpp:305-312
RECURSIVE traceReferences(_)
traceReferences(S) ==
    IF S.gvm.grayCount > 0
    THEN LET n == S.gvm.grayCount
             object == S.gvm.grayStack[n]
         IN  traceReferences(blackenObject(
                 [S EXCEPT !.gvm.grayCount = n - 1,
                           !.gvm.grayStack = SubSeq(@, 1, n - 1)], object))
    ELSE S

\* table.cpp:666-674
RECURSIVE tableRemoveWhite(_, _)
tableRemoveWhite(S, i) ==
    IF i > S.gvm.strings.capacity THEN S
    ELSE LET entry == S.gvm.strings.entries[i] IN
         IF entry.key # NULL /\ ~S.heap[entry.key].isMarked
         THEN tableRemoveWhite(
                  [S EXCEPT !.gvm.strings = tableDelete(S.heap, @, entry.key)], i + 1)
         ELSE tableRemoveWhite(S, i + 1)

\* memory.cpp:324-346
RECURSIVE sweep(_, _)
sweep(S, i) ==
    IF i > Len(S.gvm.objects) THEN S
    ELSE LET object == S.gvm.objects[i] IN
         IF S.heap[object].isMarked
         THEN sweep([S EXCEPT !.heap[object].isMarked = FALSE], i + 1)
         ELSE sweep(freeObject([S EXCEPT !.gvm.objects =
                                    SubSeq(@, 1, i - 1) \o SubSeq(@, i + 1, Len(@))],
                               object), i)

\* memory.cpp:14
GC_HEAP_GROW_FACTOR == 2

\* the product is stored into the byte counter
setNextGC_onBytesAllocated(S) ==
    [S EXCEPT !.gvm.bytesAllocated = S.gvm.bytesAllocated * GC_HEAP_GROW_FACTOR]

\* memory.cpp:370
setNextGC(S) == [S EXCEPT !.gvm.nextGC = S.gvm.bytesAllocated * GC_HEAP_GROW_FACTOR]

MaxGC == 2

\* Ghost record of the collections of a run: their number, the heap size, the
\* byte counter and the object lists at the end of the last one, the byte
\* counter when the current one began, and whether the last one began in the
\* state the one before it had left.
ObjectLists == << [v \in DOMAIN vm |-> vm[v].objects], gvm.objects >>

InitGC ==
    \E p \in {q \in 1..Len(Programs) : Programs[q].src \in {"concat", "store"}} :
      \E boot \in {dispatchThread(BlankMach)} :
        \E b \in {interpret(boot, Programs[p])} :
        /\ chunk = [src |-> Programs[p].src, code |-> Programs[p].code, constants |-> b.r]
        /\ vm = b.s.vm /\ stack = b.s.stack /\ heap = b.s.heap /\ gvm = b.s.gvm
        /\ MainOnly
        /\ hist = [finishOf |-> [t \in Threads |-> NoThread], closed |-> {}, atCall |-> {},
                   gcs |-> 0, lastLen |-> 0, lastBytes |-> 0, lastObjects |-> <<>>,
                   preBytes |-> 0, again |-> FALSE]

\* memory.cpp:359-361: collectGarbage() is entered from reallocate
\* (memory.cpp:38-40) in a build with DEBUG_STRESS_GC
CollectGarbage ==
    /\ Running(MainThread) /\ hist.gcs < MaxGC
    /\ pc' = [pc EXCEPT ![MainThread] = "markRoots"]
    /\ hist' = [hist EXCEPT !.preBytes = gvm.bytesAllocated]
    /\ UNCHANGED << chunk, proc, tvm, vm, stack, heap, gvm, id_to_vm, thread_arr,
                    id_to_vm_mtx, vm_pool_mtx, new_thread, iter, out, nthreads, result >>

GcPhase(at, S, to) ==
    /\ proc = "running" /\ pc[MainThread] = at
    /\ Set(S)
    /\ pc' = [pc EXCEPT ![MainThread] = to]
    /\ UNCHANGED << chunk, proc, tvm, id_to_vm, thread_arr, id_to_vm_mtx, vm_pool_mtx,
                    new_thread, iter, out, nthreads, result >>

\* memory.cpp:366
MarkRoots == GcPhase("markRoots", markRoots(Mach), "traceReferences") /\ UNCHANGED hist

\* memory.cpp:367
TraceReferences ==
    GcPhase("traceReferences", traceReferences(Mach), "tableRemoveWhite") /\ UNCHANGED hist

\* memory.cpp:368
TableRemoveWhite ==
    GcPhase("tableRemoveWhite", tableRemoveWhite(Mach, 1), "sweep") /\ UNCHANGED hist

\* memory.cpp:369
Sweep == GcPhase("sweep", sweep(Mach, 1), "setNextGC") /\ UNCHANGED hist

\* memory.cpp:370-380
CollectGarbageEnd ==
    /\ GcPhase("setNextGC", setNextGC(Mach), "run")
    /\ hist' = [hist EXCEPT !.gcs = @ + 1, !.lastLen = Len(heap),
                            !.lastBytes = gvm'.bytesAllocated,
                            !.lastObjects = ObjectLists,
                            !.again = hist.gcs >= 1 /\ hist.lastLen = Len(heap)
                                      /\ hist.preBytes = hist.lastBytes]

NextGC ==
    \/ OpConstant(MainThread) \/ OpGetLocal(MainThread) \/ OpAdd(MainThread)
    \/ OpIndexSet(MainThread) \/ OpEqual(MainThread) \/ OpPrint(MainThread)
    \/ OpPop(MainThread) \/ OpNil(MainThread) \/ OpReturn(MainThread) \/ MainExit
    \/ CollectGarbage \/ MarkRoots \/ TraceReferences \/ TableRemoveWhite \/ Sweep
    \/ CollectGarbageEnd

SpecGC == InitGC /\ [][NextGC]_vars

(***************************************************************************)
(* Calls (vm.cpp: OP_CALL, callValue, call, the natives).  The scripts are *)
(* `fun f() { f(); } name(args);` for a callee name and a list of argument *)
(* literals.  `chunk` is the chunk of the function of the current frame,   *)
(* vm[v].ip and vm[v].slots are the ip and slots of that frame.            *)
(***************************************************************************)

\* vm.hpp:7
FRAMES_MAX == 64

NameF == << "f" >>
CallNames == {NameF} \cup {NativeNames[k] : k \in 3..Len(NativeNames)}
CallArgs ==
    { <<>>, << "nil" >>, << "number" >>, << "string" >>, << "number", "number" >>,
      << "string", "string" >> }
\* What the input natives read from stdin
Stdin == { << "a" >>, << "b" >> }

ArgInstr(kind) ==
    CASE kind = "nil" -> I("NIL", 0)
      [] kind = "number" -> I("CONSTANT", 2)
      [] OTHER -> I("CONSTANT", 3)

ProgCall(name, args) ==
    [src |-> "call",
     consts |-> << KStr(name), KNum(1), KStr(<< "a" >>), KStr(NameF) >>,
     code |-> << I("GET_GLOBAL", 1) >> \o [i \in 1..Len(args) |-> ArgInstr(args[i])]
              \o << I("CALL", Len(args)), I("POP", 0), I("NIL", 0), I("RETURN", 0) >>]

\* the body of f: f();
CodeF == << I("GET_GLOBAL", 1), I("CALL", 0), I("POP", 0), I("NIL", 0), I("RETURN", 0) >>

\* The declaration `fun f() { f(); }` of the script: the function compiled
\* with its name as its only constant (object.cpp:192-200), OP_CLOSURE
\* (vm.cpp:857-871) and OP_DEFINE_GLOBAL (vm.cpp:892-897).  frames[1] is the
\* frame interpret() made for the script.
defineF(S, name) ==
    LET fn == NewId(S)
        S1 == allocateObject(S, 0, "function", <<>>)
        S2 == [S1 EXCEPT !.heap[fn] = @ @@ [arity |-> 0, code |-> CodeF,
                                             constants |-> << name >>]]
        S3 == newClosure(S2, 0, fn)
    IN  [S3 EXCEPT !.vm[0] = [@ EXCEPT !.globals = tableSet(@, name.v, ObjVal(NewId(S2)))]
                               @@ [frames |-> << [closure |-> S.stack[0][1].v,
                                                  ip |-> 1, slots |-> Addr(0, 1)] >>]]

InitCall ==
    \E name \in CallNames, args \in CallArgs :
      \E boot \in {dispatchThread([BlankMach EXCEPT !.stack[0] =
                                      [i \in 1..(FRAMES_MAX + MaxStack) |-> ZeroVal]])} :
        \E b \in {interpret(boot, ProgCall(name, args))} :
          \E d \in {defineF(b.s, b.r[4])} :
            /\ chunk = [src |-> "call", code |-> ProgCall(name, args).code,
                        constants |-> b.r]
            /\ vm = d.vm /\ stack = d.stack /\ heap = d.heap /\ gvm = d.gvm
            /\ MainOnly
            /\ hist = [finishOf |-> [t \in Threads |-> NoThread], closed |-> {},
                       atCall |-> {}, err |-> "none"]

\* the frame array is taken to be full one frame later
call_lateCheck(S, v, closure, argCount) ==
    LET function == S.heap[closure].function
        fc == S.vm[v].frameCount
        a  == S.vm[v].stackTop
    IN  IF argCount # S.heap[function].arity
        THEN [s |-> resetStack(S, v), ok |-> FALSE, err |-> "Expected arguments."]
        ELSE IF fc > FRAMES_MAX
        THEN [s |-> resetStack(S, v), ok |-> FALSE, err |-> "Stack overflow."]
        ELSE [s |-> [S EXCEPT !.vm[v].frames =
                        Append([SubSeq(@, 1, fc) EXCEPT ![fc].ip = S.vm[v].ip],
                               [closure |-> closure, ip |-> 1,
                                slots |-> Addr(a.vm, a.i - argCount - 1)]),
                              !.vm[v].frameCount = fc + 1],
              ok |-> TRUE, err |-> "none"]

\* vm.cpp:1257-1276; the message of runtimeError is returned as err
call(S, v, closure, argCount) ==
    LET function == S.heap[closure].function
        fc == S.vm[v].frameCount
        a  == S.vm[v].stackTop
    IN  IF argCount # S.heap[function].arity
        THEN [s |-> resetStack(S, v), ok |-> FALSE, err |-> "Expected arguments."]
        ELSE IF fc = FRAMES_MAX
        THEN [s |-> resetStack(S, v), ok |-> FALSE, err |-> "Stack overflow."]
        ELSE [s |-> [S EXCEPT !.vm[v].frames =
                        Append([SubSeq(@, 1, fc) EXCEPT ![fc].ip = S.vm[v].ip],
                               [closure |-> closure, ip |-> 1,
                                slots |-> Addr(a.vm, a.i - argCount - 1)]),
                              !.vm[v].frameCount = fc + 1],
              ok |-> TRUE, err |-> "none"]


\* args[k] of a native: the cell k above stackTop - argCount
Arg(S, v, argCount, k) ==
    LET a == S.vm[v].stackTop IN S.stack[a.vm][a.i - argCount + k]

Returns(S, r, print) == [s |-> S, r |-> r, exit |-> "none", print |-> print]
Exits(S, how) == [s |-> S, r |-> NilVal, exit |-> how, print |-> <<>>]

\* AS_LIST applied to a value that is no list, and the accesses through the
\* pointer it yields: the process is killed, or the accesses fall into mapped
\* memory and the native returns nil
IllTypedList(S) == {Exits(S, "SIGSEGV"), Returns(S, NilVal, <<>>)}

\* vm.cpp:221-232: the check of the arguments has an empty body
appendNative(S, v, argCount) ==
    LET list == Arg(S, v, argCount, 0) IN
    IF IS_LIST(S, list)
    THEN {Returns(appendToList(S, list.v, Arg(S, v, argCount, 1)), NilVal, <<>>)}
    ELSE IllTypedList(S)

\* vm.cpp:234-250: both checks have an empty body.  On an empty list, and
\* for an index below 0, deleteFromList writes in front of the array.
deleteNative(S, v, argCount) ==
    LET list  == Arg(S, v, argCount, 0)
        index == Arg(S, v, argCount, 1).v
    IN  IF ~IS_LIST(S, list) THEN IllTypedList(S)
        ELSE IF Len(S.heap[list.v].items) = 0 THEN IllTypedList(S)
        ELSE IF index < 0
        THEN {Exits(S, "SIGSEGV"), Returns(deleteFromList(S, list.v, index), NilVal, <<>>)}
        ELSE {Returns(deleteFromList(S, list.v, index), NilVal, <<>>)}

\* vm.cpp:251-269, 271-289, 291-308: the checks and the prompt shared by
\* str_input, char_input and int_input
Prompted(S, v, argCount, results) ==
    IF argCount > 1 THEN {Exits(S, "exit(0)")}
    ELSE IF argCount = 1 /\ ~IS_STRING(S, Arg(S, v, argCount, 0)) THEN {Exits(S, "exit(0)")}
    ELSE {[R EXCEPT !.print = IF argCount = 1
                               THEN S.heap[Arg(S, v, argCount, 0).v].chars ELSE <<>>] :
            R \in results}

\* vm.cpp:251-269; char_input (271-289) reads one character
strInput(S, v, argCount) ==
    Prompted(S, v, argCount,
             {Returns(c.s, ObjVal(c.r), <<>>) : c \in {copyString(S, v, s) : s \in Stdin}})

\* vm.cpp:291-308
intInput(S, v, argCount) ==
    Prompted(S, v, argCount, {Returns(S, NumberVal(Len(s)), <<>>) : s \in Stdin})

\* vm.cpp:309-331
objLength(S, v, argCount) ==
    LET x == Arg(S, v, argCount, 0) IN
    IF argCount # 1 THEN {Exits(S, "exit(0)")}
    ELSE IF ~IS_STRING(S, x) /\ ~IS_LIST(S, x) THEN {Exits(S, "exit(0)")}
    ELSE IF IS_STRING(S, x) THEN {Returns(S, NumberVal(Len(S.heap[x.v].chars)), <<>>)}
    ELSE {Returns(S, NumberVal(Len(S.heap[x.v].items)), <<>>)}

\* AS_NATIVE(callee)(argCount, stackTop - argCount)
NativeFn(S, v, name, argCount) ==
    CASE name = NativeNames[3] -> appendNative(S, v, argCount)
      [] name = NativeNames[4] -> deleteNative(S, v, argCount)
      [] name = NativeNames[5] -> intInput(S, v, argCount)
      [] name \in {NativeNames[6], NativeNames[7]} -> strInput(S, v, argCount)
      [] name = NativeNames[8] -> objLength(S, v, argCount)
      [] OTHER -> {Returns(S, NumberVal(0), <<>>)}

\* vm.cpp:1289-1326: the outcomes of a call of callee; bound methods and
\* classes do not occur in the scripts
callValue(S, v, callee, argCount) ==
    LET a == S.vm[v].stackTop IN
    IF IS_OBJ(callee) /\ S.heap[callee.v].type = "closure"
    THEN {c @@ [exit |-> "none", print |-> <<>>] : c \in {call(S, v, callee.v, argCount)}}
    ELSE IF IS_OBJ(callee) /\ S.heap[callee.v].type = "native"
    THEN {[s |-> push([R.s EXCEPT !.vm[v].stackTop = Addr(a.vm, a.i - argCount - 1)],
                      v, R.r),
           ok |-> TRUE, err |-> "none", exit |-> R.exit, print |-> R.print] :
            R \in NativeFn(S, v, S.heap[callee.v].chars, argCount)}
    ELSE {[s |-> resetStack(S, v), ok |-> FALSE,
           err |-> "Can only call functions and classes.", exit |-> "none",
           print |-> <<>>]}

CallFixed == << tvm, id_to_vm, thread_arr, id_to_vm_mtx, vm_pool_mtx, new_thread, iter,
                nthreads >>

\* vm.cpp:899-908
OpGetGlobal(t) ==
    /\ At(t, "GET_GLOBAL")
    /\ LET S == Fetch(t)
           found == {e \in S.vm[tvm[t]].globals : e.k = chunk.constants[Operand(t)].v}
       IN  IF found = {}
           THEN runtimeError(t, S) /\ hist' = [hist EXCEPT !.err = "Undefined variable."]
           ELSE /\ Continue(t, push(S, tvm[t], (CHOOSE e \in found : TRUE).v))
                /\ UNCHANGED hist
    /\ UNCHANGED << CallFixed, chunk, proc, out >>

\* vm.cpp:879-886; frame = &frames[frameCount - 1] after a call that made a
\* frame
OpCall(t) ==
    /\ At(t, "CALL")
    /\ LET S == Fetch(t)
           v == tvm[t]
       IN  \E R \in callValue(S, v, peek(S, v, Operand(t)), Operand(t)) :
             IF R.exit # "none"
             THEN /\ proc' = R.exit
                  /\ UNCHANGED << chunk, pc, vm, stack, heap, gvm, result, out, hist >>
             ELSE IF ~R.ok
             THEN /\ runtimeError(t, R.s)
                  /\ hist' = [hist EXCEPT !.err = R.err]
                  /\ UNCHANGED << chunk, proc, out >>
             ELSE LET fc == R.s.vm[v].frameCount
                      frame == R.s.vm[v].frames[fc]
                      function == R.s.heap[frame.closure].function
                  IN  /\ IF fc = S.vm[v].frameCount
                         THEN Continue(t, R.s) /\ UNCHANGED chunk
                         ELSE /\ Continue(t, [R.s EXCEPT !.vm[v].ip = frame.ip,
                                                         !.vm[v].slots = frame.slots])
                              /\ chunk' = [chunk EXCEPT
                                              !.code = R.s.heap[function].code,
                                              !.constants = R.s.heap[function].constants]
                      /\ out' = IF R.print = <<>> THEN out ELSE Append(out, R.print)
                      /\ UNCHANGED << proc, hist >>
    /\ UNCHANGED CallFixed

NextCall ==
    \/ OpGetGlobal(MainThread) \/ OpConstant(MainThread) \/ OpNil(MainThread)
    \/ OpCall(MainThread) \/ OpPop(MainThread) \/ OpReturn(MainThread) \/ MainExit

SpecCall == InitCall /\ [][NextCall]_vars

(***************************************************************************)
(* interpret(source) with the compiler (part_001).  The sources are        *)
(* `1;` repeated hist.source.n times, followed by the statement `+;` when  *)
(* hist.source.bad.  The compiler works on `chunk`; hist.parser is the     *)
(* parser's hadError and panicMode, hist.errors counts the messages        *)
(* written, hist.function is the function under compilation.  An operand   *)
(* of OP_CONSTANT is kept 1-based.  The growth of the code and value       *)
(* arrays (GROW_ARRAY) is not modelled.                                    *)
(***************************************************************************)

\* part_001:324, the largest operand of OP_CONSTANT
UINT8_MAX == 255

SourceLengths == {1, UINT8_MAX, UINT8_MAX + 1, UINT8_MAX + 2}

\* part_001:249-267
errorAt(h, message) ==
    IF h.parser.panicMode THEN h
    ELSE [h EXCEPT !.parser = [hadError |-> TRUE, panicMode |-> TRUE],
                   !.errors = @ + 1, !.err = message]

\* chunk.cpp:74-81; the value is on the stack of VM::getVM() during the write
addConstant(c, value) ==
    [c |-> [c EXCEPT !.constants = Append(@, value)], r |-> Len(c.constants)]

\* the index of the last constant is refused as well
makeConstant_refusesLast(c, h, value) ==
    LET a == addConstant(c, value) IN
    IF a.r >= UINT8_MAX
    THEN [c |-> a.c, h |-> errorAt(h, "Too many constants in one chunk."), r |-> 0]
    ELSE [c |-> a.c, h |-> h, r |-> a.r]

\* part_001:321-330
makeConstant(c, h, value) ==
    LET a == addConstant(c, value) IN
    IF a.r > UINT8_MAX
    THEN [c |-> a.c, h |-> errorAt(h, "Too many constants in one chunk."), r |-> 0]
    ELSE [c |-> a.c, h |-> h, r |-> a.r]

\* part_001:389
emitByte(c, instruction) == [c EXCEPT !.code = Append(@, instruction)]

\* part_001:450-453 from number() (part_001:1553-1557)
emitConstant(c, h, value) ==
    LET m == makeConstant(c, h, value) IN
    [c |-> emitByte(m.c, I("CONSTANT", m.r + 1)), h |-> m.h]

\* part_001:1468-1488, reached from declaration() when panicMode is set
synchronize(h) == [h EXCEPT !.parser.panicMode = FALSE]

\* the function is returned whatever the parser reported
compileReturn_ignoresErrors(h) == h.function

\* part_001:1744
compileReturn(h) == IF h.parser.hadError THEN NULL ELSE h.function

InitCompile ==
    \E n \in SourceLengths, bad \in BOOLEAN :
      \E boot \in {dispatchThread(BlankMach)} :
        /\ chunk = [src |-> "compile", code |-> <<>>, constants |-> <<>>]
        /\ vm = boot.vm /\ stack = boot.stack /\ heap = boot.heap /\ gvm = boot.gvm
        /\ proc = "running"
        /\ pc = [t \in Threads |-> IF t = MainThread THEN "compile" ELSE "unborn"]
        /\ tvm = [t \in Threads |-> IF t = MainThread THEN 0 ELSE NoVM]
        /\ id_to_vm = [t \in Threads |-> IF t = MainThread THEN 0 ELSE NoVM]
        /\ thread_arr = [buf |-> << MainThread >>, n |-> 1, cap |-> 1]
        /\ id_to_vm_mtx = NoThread /\ vm_pool_mtx = NoThread
        /\ new_thread = [t \in Threads |-> NoThread]
        /\ iter = [t \in Threads |-> [i |-> 0, e |-> 0, old |-> <<>>]]
        /\ out = <<>> /\ nthreads = 0
        /\ result = [t \in Threads |-> "none"]
        /\ hist = [finishOf |-> [t \in Threads |-> NoThread], closed |-> {},
                   atCall |-> {}, source |-> [n |-> n, bad |-> bad], done |-> 0,
                   parser |-> [hadError |-> FALSE, panicMode |-> FALSE],
                   errors |-> 0, err |-> "none", function |-> NULL]

CompileFixed == << proc, tvm, id_to_vm, thread_arr, id_to_vm_mtx, vm_pool_mtx,
                   new_thread, iter, out, nthreads, result >>

\* part_001:1728-1737: initCompiler creates the function (part_001:486-519)
CompileBegin ==
    /\ proc = "running" /\ pc[MainThread] = "compile"
    /\ Set(allocateObject(Mach, 0, "function", <<>>))
    /\ hist' = [hist EXCEPT !.function = NewId(Mach),
                            !.parser = [hadError |-> FALSE, panicMode |-> FALSE]]
    /\ pc' = [pc EXCEPT ![MainThread] = "declaration"]
    /\ UNCHANGED << chunk, CompileFixed >>

\* part_001:1499-1512 on the statement `1;`: number(), then OP_POP
\* (part_001:1321-1326)
DeclareNumber ==
    /\ proc = "running" /\ pc[MainThread] = "declaration"
    /\ hist.done < hist.source.n
    /\ LET e == emitConstant(chunk, hist, NumberVal(1))
           h == IF e.h.parser.panicMode THEN synchronize(e.h) ELSE e.h
       IN  /\ chunk' = emitByte(e.c, I("POP", 0))
           /\ hist' = [h EXCEPT !.done = @ + 1]
    /\ UNCHANGED << pc, vm, stack, heap, gvm, CompileFixed >>

\* part_001:1499-1512 on the statement `+;`: "Expect expression.", OP_POP
DeclareBad ==
    /\ proc = "running" /\ pc[MainThread] = "declaration"
    /\ hist.done = hist.source.n /\ hist.source.bad
    /\ chunk' = emitByte(chunk, I("POP", 0))
    /\ hist' = [synchronize(errorAt(hist, "Expect expression.")) EXCEPT !.done = @ + 1]
    /\ UNCHANGED << pc, vm, stack, heap, gvm, CompileFixed >>

AtEOF == hist.done = hist.source.n + (IF hist.source.bad THEN 1 ELSE 0)

\* part_001:1739-1744 at TOKEN_EOF, endCompiler (part_001:531-545), and the
\* rest of interpret (vm.cpp:491-500)
Interpret ==
    /\ proc = "running" /\ pc[MainThread] = "declaration" /\ AtEOF
    /\ chunk' = emitByte(emitByte(chunk, I("NIL", 0)), I("RETURN", 0))
    /\ LET function == compileReturn(hist) IN
       IF function = NULL
       THEN /\ result' = [result EXCEPT ![MainThread] = "COMPILE_ERROR"]
            /\ pc' = [pc EXCEPT ![MainThread] = "ret"]
            /\ UNCHANGED << vm, stack, heap, gvm >>
       ELSE \E S2 \in {push(Mach, 0, ObjVal(function))} :
              \E S4 \in {push(pop(newClosure(S2, 0, function), 0), 0, ObjVal(NewId(S2)))} :
                /\ Set([S4 EXCEPT !.vm[0].ip = 1,
                                  !.vm[0].slots = Addr(0, S4.vm[0].stackTop.i - 1),
                                  !.vm[0].frameCount = 1])
                /\ pc' = [pc EXCEPT ![MainThread] = "run"]
                /\ UNCHANGED result
    /\ UNCHANGED << hist, proc, tvm, id_to_vm, thread_arr, id_to_vm_mtx, vm_pool_mtx,
                    new_thread, iter, out, nthreads >>

NextCompile ==
    \/ CompileBegin \/ DeclareNumber \/ DeclareBad \/ Interpret
    \/ OpConstant(MainThread) \/ OpPop(MainThread) \/ OpNil(MainThread)
    \/ OpReturn(MainThread) \/ MainExit

SpecCompile == InitCompile /\ [][NextCompile]_vars

(***************************************************************************)
(* The hash table as a map (table.cpp), driven as the unit test            *)
(* hashtable_test.cpp drives it: keys made by hand, any sequence of        *)
(* tableSet, tableGet, tableDelete and tableAddAll on two tables, which    *)
(* are kept in vm[0].globals ("to") and vm[0].strings ("from").  hist.map  *)
(* is the map each table stands for, hist.ret what the last call returned. *)
(***************************************************************************)

\* table.cpp:415-456, tableSet: the value it returns
isNewKey(hp, tbl, key) ==
    LET t1 == IF 4 * (tbl.count + 1) > 3 * tbl.capacity
              THEN adjustCapacity(hp, tbl, GROW_CAPACITY(tbl.capacity))
              ELSE tbl
    IN  t1.entries[findEntry(hp, t1.entries, t1.capacity, key) + 1].key = NULL

\* table.cpp:471-500; the caller's *value is left alone when the key is absent
tableGet(hp, tbl, key) ==
    IF tbl.count = 0 THEN [found |-> FALSE, value |-> NilVal]
    ELSE LET entry == tbl.entries[findEntry(hp, tbl.entries, tbl.capacity, key) + 1] IN
         IF entry.key = NULL THEN [found |-> FALSE, value |-> NilVal]
         ELSE [found |-> TRUE, value |-> entry.value]

\* table.cpp:686-694
RECURSIVE tableAddAll(_, _, _, _)
tableAddAll(hp, from, to, i) ==
    IF i >= from.capacity THEN to
    ELSE IF from.entries[i + 1].key # NULL
    THEN tableAddAll(hp, from,
                     Table_tableSet(hp, to, from.entries[i + 1].key,
                                    from.entries[i + 1].value), i + 1)
    ELSE tableAddAll(hp, from, to, i + 1)

\* Keys whose hashes meet in a table of 8 entries ("a" and "i" at index 4,
\* "b" behind them at 5) and part in a table of 16
TableKeys == << << "a" >>, << "i" >>, << "b" >> >>
TableValues == {NilVal, NumberVal(1)}
TableNames == {"globals", "strings"}
MaxCount == 7
MaxFromCount == 2

Absent == [found |-> FALSE, value |-> NilVal]
Present(value) == [found |-> TRUE, value |-> value]
TableOf(tn) == vm[0][tn]
CountBound(tn) == IF tn = "globals" THEN MaxCount ELSE MaxFromCount

InitTable ==
    /\ MainOnly
    /\ chunk = [src |-> "table", code |-> <<>>, constants |-> <<>>]
    /\ vm = [BlankMach.vm EXCEPT ![0].assigned = TRUE, ![0].stackTop = Addr(0, 1),
                                 ![0].strings = initTable, ![0].globals = initTable]
    /\ stack = BlankMach.stack /\ gvm = BlankMach.gvm
    /\ heap = [k \in 1..Len(TableKeys) |->
                 [type |-> "string", chars |-> TableKeys[k], hash |-> HashOf(TableKeys[k]),
                  isMarked |-> FALSE]]
    /\ hist = [op |-> "none", ret |-> FALSE,
               map |-> [tn \in TableNames |-> [k \in 1..Len(TableKeys) |-> Absent]]]

\* table.tableSet(key, value)
TableSet(tn, key, value) ==
    /\ TableOf(tn).count < CountBound(tn)
    /\ vm' = [vm EXCEPT ![0][tn] = Table_tableSet(heap, @, key, value)]
    /\ hist' = [hist EXCEPT !.op = "set", !.ret = isNewKey(heap, TableOf(tn), key),
                            !.map[tn][key] = Present(value)]
    /\ UNCHANGED << stack, heap, gvm, Others >>

\* table.tableGet(key, &value)
TableGet(tn, key) ==
    /\ hist' = [hist EXCEPT !.op = "get", !.ret = tableGet(heap, TableOf(tn), key)]
    /\ UNCHANGED << vm, stack, heap, gvm, Others >>

\* table.tableDelete(key)
TableDelete(tn, key) ==
    /\ vm' = [vm EXCEPT ![0][tn] = tableDelete(heap, @, key)]
    /\ hist' = [hist EXCEPT !.op = "delete", !.ret = hist.map[tn][key].found,
                            !.map[tn][key] = Absent]
    /\ UNCHANGED << stack, heap, gvm, Others >>

\* tableAddAll(&from, &to); as a map, a set on `to` for each binding of `from`
TableAddAll ==
    /\ TableOf("globals").count < MaxCount
    /\ vm' = [vm EXCEPT ![0].globals = tableAddAll(heap, vm[0].strings, @, 0)]
    /\ hist' = [hist EXCEPT !.op = "addAll",
                            !.map["globals"] =
                                [k \in 1..Len(TableKeys) |->
                                   IF hist.map["strings"][k].found
                                   THEN hist.map["strings"][k] ELSE @[k]]]
    /\ UNCHANGED << stack, heap, gvm, Others >>

NextTable ==
    \/ \E tn \in TableNames, key \in 1..Len(TableKeys), value \in TableValues :
         TableSet(tn, key, value)
    \/ \E tn \in TableNames, key \in 1..Len(TableKeys) : TableGet(tn, key)
    \/ \E tn \in TableNames, key \in 1..Len(TableKeys) : TableDelete(tn, key)
    \/ TableAddAll

SpecTable == InitTable /\ [][NextTable]_vars

(***************************************************************************)
(* Global variables (vm.cpp:892-908, 980-988) on the table of table.cpp.   *)
(* The script is three statements, each a declaration `var k = v;`, an     *)
(* assignment `k = v;` or `print k;`, over the names a and i.              *)
(***************************************************************************)

GlobalNames == << << "a" >>, << "i" >> >>
GlobalConsts == << KStr(GlobalNames[1]), KStr(GlobalNames[2]), KNum(1), KNum(2) >>
MaxLines == 3

Line(kind, k, v) ==
    CASE kind = "var" -> << I("CONSTANT", v), I("DEFINE_GLOBAL", k) >>
      [] kind = "set" -> << I("CONSTANT", v), I("SET_GLOBAL", k), I("POP", 0) >>
      [] OTHER -> << I("GET_GLOBAL", k), I("PRINT", 0) >>

\* var k = 1;  k = 2;  print k;
Lines == {Line("var", k, 3) : k \in 1..2} \cup {Line("set", k, 4) : k \in 1..2}
            \cup {Line("get", k, 0) : k \in 1..2}

RECURSIVE Concat(_)
Concat(ls) == IF ls = <<>> THEN <<>> ELSE Head(ls) \o Concat(Tail(ls))

\* vm.cpp:1432-1439 on the table of table.cpp: the globals initVM leaves, the
\* natives set in the order of their definition, every string carrying the
\* hash copyString gave it
RECURSIVE globalsOf(_, _, _, _)
globalsOf(globals, hp, k, tbl) ==
    IF k > Len(NativeNames) THEN tbl
    ELSE CHOOSE R \in
           {globalsOf(globals, hp, k + 1, t1) :
              t1 \in {Table_tableSet(hp, tbl, e.k, e.v) :
                        e \in {e \in globals : hp[e.k].chars = NativeNames[k]}}} : TRUE

\* string objects with the hash of object.cpp:23-41 in their hash field
hashed(hp) ==
    [o \in DOMAIN hp |-> IF hp[o].type = "string"
                         THEN [hp[o] EXCEPT !.hash = HashOf(hp[o].chars)]
                         ELSE hp[o]]

\* dispatchThread(NULL) and interpret() up to the call of run()
GlobalBase ==
    interpret(dispatchThread(BlankMach),
              [src |-> "global", consts |-> GlobalConsts, code |-> <<>>])

GlobalHeap == hashed(GlobalBase.s.heap)

GlobalTable == globalsOf(GlobalBase.s.vm[0].globals, GlobalHeap, 1, initTable)

GlobalBoot ==
    [s |-> [GlobalBase.s EXCEPT !.heap = GlobalHeap, !.vm[0].globals = GlobalTable],
     r |-> GlobalBase.r]

InitGlobal ==
    \E ls \in [1..MaxLines -> Lines] :
      /\ chunk = [src |-> "global",
                  code |-> Concat(ls) \o << I("NIL", 0), I("RETURN", 0) >>,
                  constants |-> GlobalBoot.r]
      /\ vm = GlobalBoot.s.vm /\ stack = GlobalBoot.s.stack
      /\ heap = GlobalBoot.s.heap /\ gvm = GlobalBoot.s.gvm
      /\ MainOnly
      /\ hist = [finishOf |-> [t \in Threads |-> NoThread], closed |-> {},
                 atCall |-> {}, err |-> "none"]

\* vm.cpp:892-897
OpDefineGlobal(t) ==
    /\ At(t, "DEFINE_GLOBAL")
    /\ LET S    == Fetch(t)
           name == chunk.constants[Operand(t)].v
           S1   == [S EXCEPT !.vm[tvm[t]].globals =
                       Table_tableSet(S.heap, @, name, peek(S, tvm[t], 0))]
       IN  Continue(t, pop(S1, tvm[t]))
    /\ UNCHANGED << Dispatch, out >>

\* vm.cpp:899-908
OpGetGlobalT(t) ==
    /\ At(t, "GET_GLOBAL")
    /\ LET S == Fetch(t)
           r == tableGet(S.heap, S.vm[tvm[t]].globals, chunk.constants[Operand(t)].v)
       IN  IF ~ r.found
           THEN runtimeError(t, S) /\ hist' = [hist EXCEPT !.err = "Undefined variable."]
           ELSE Continue(t, push(S, tvm[t], r.value)) /\ UNCHANGED hist
    /\ UNCHANGED << CallFixed, chunk, proc, out >>

\* vm.cpp:980-988
OpSetGlobal(t) ==
    /\ At(t, "SET_GLOBAL")
    /\ LET S    == Fetch(t)
           name == chunk.constants[Operand(t)].v
           tbl  == S.vm[tvm[t]].globals
           S1   == [S EXCEPT !.vm[tvm[t]].globals =
                       Table_tableSet(S.heap, tbl, name, peek(S, tvm[t], 0))]
       IN  IF isNewKey(S.heap, tbl, name)
           THEN /\ runtimeError(t, [S1 EXCEPT !.vm[tvm[t]].globals =
                                       tableDelete(S1.heap, @, name)])
                /\ hist' = [hist EXCEPT !.err = "Undefined variable."]
           ELSE Continue(t, S1) /\ UNCHANGED hist
    /\ UNCHANGED << CallFixed, chunk, proc, out >>

NextGlobal ==
    \/ OpConstant(MainThread) \/ OpDefineGlobal(MainThread) \/ OpGetGlobalT(MainThread)
    \/ OpSetGlobal(MainThread) \/ OpPop(MainThread) \/ OpPrint(MainThread)
    \/ OpNil(MainThread) \/ OpReturn(MainThread) \/ MainExit

SpecGlobal == InitGlobal /\ [][NextGlobal]_vars

(***************************************************************************)
(* Arithmetic (vm.cpp:647-723, 771-801).  The script is `print x op y;`    *)
(* for op one of - * / % and x, y drawn from numbers, strings of one and   *)
(* two characters, nil and true.                                           *)
(***************************************************************************)

ArithOps == {"SUBTRACT", "MULTIPLY", "DIVIDE", "MODULUS"}
ArithKinds == {"0", "2", "a", "b", "ab", "nil", "true"}
ArithConsts == << KNum(0), KNum(2), KStr(<< "a" >>), KStr(<< "b" >>), KStr(<< "a", "b" >>) >>

ArithInstr(kind) ==
    CASE kind = "0" -> I("CONSTANT", 1)
      [] kind = "2" -> I("CONSTANT", 2)
      [] kind = "a" -> I("CONSTANT", 3)
      [] kind = "b" -> I("CONSTANT", 4)
      [] kind = "ab" -> I("CONSTANT", 5)
      [] kind = "nil" -> I("NIL", 0)
      [] OTHER -> I("TRUE", 0)

ProgArith(x, op, y) ==
    [src |-> "arith", consts |-> ArithConsts,
     code |-> << ArithInstr(x), ArithInstr(y), I(op, 0), I("PRINT", 0),
                 I("NIL", 0), I("RETURN", 0) >>]

InitArith ==
    \E x \in ArithKinds, op \in ArithOps, y \in ArithKinds :
      \E b \in {interpret(dispatchThread(BlankMach), ProgArith(x, op, y))} :
        /\ chunk = [src |-> "arith", code |-> ProgArith(x, op, y).code, constants |-> b.r]
        /\ vm = b.s.vm /\ stack = b.s.stack /\ heap = b.s.heap /\ gvm = b.s.gvm
        /\ MainOnly
        /\ hist = [finishOf |-> [t \in Threads |-> NoThread], closed |-> {},
                   atCall |-> {}, err |-> "none"]

\* a / b on doubles: the quotient where it is a whole number, and the pair
\* of the operands for the other doubles (fractions, inf, NaN)
Quotient(a, b) == IF b # 0 /\ a % b = 0 THEN a \div b ELSE << a, "/", b >>

\* the operands are not looked at: whatever they hold is taken for a number
BINARY_OP_unchecked(S, v, op) ==
    {[s |-> push(pop(pop(S, v), v), v, NumberVal(0)), ok |-> TRUE, trap |-> FALSE,
      err |-> "none"]}

\* vm.cpp:647-723 for - * / %: the outcomes of one instruction.  i_a % i_b
\* with i_b = 0 is undefined: the division traps or leaves the dividend.
BINARY_OP(S, v, op) ==
    LET y  == peek(S, v, 0)
        x  == peek(S, v, 1)
        S2 == pop(pop(S, v), v)
        Fail(msg) == {[s |-> S, ok |-> FALSE, trap |-> FALSE, err |-> msg]}
        Result(val) == {[s |-> push(S2, v, val), ok |-> TRUE, trap |-> FALSE,
                         err |-> "none"]}
    IN  IF op = "-"
        THEN IF IS_STRING(S, y) /\ IS_STRING(S, x)
             THEN IF Len(S.heap[x.v].chars) # 1 \/ Len(S.heap[y.v].chars) # 1
                  THEN Fail("Operands must be two characters")
                  ELSE Result(NumberVal(Code(S.heap[x.v].chars[1])
                                          - Code(S.heap[y.v].chars[1])))
             ELSE IF IS_NUMBER(y) /\ IS_NUMBER(x)
             THEN Result(NumberVal(x.v - y.v))
             ELSE Fail("Operands must be two numbers or two chars")
        ELSE IF ~ IS_NUMBER(y) \/ ~ IS_NUMBER(x)
        THEN Fail("Operands must be numbers.")
        ELSE CASE op = "*" -> Result(NumberVal(x.v * y.v))
               [] op = "/" -> Result(NumberVal(Quotient(x.v, y.v)))
               [] OTHER -> IF y.v = 0
                           THEN Result(NumberVal(x.v))
                                  \cup {[s |-> S, ok |-> FALSE, trap |-> TRUE,
                                         err |-> "none"]}
                           ELSE Result(NumberVal(x.v % y.v))

OpArith(t, name, op) ==
    /\ At(t, name)
    /\ \E R \in BINARY_OP(Fetch(t), tvm[t], op) :
         /\ IF R.trap
            THEN /\ proc' = "SIGFPE"
                 /\ UNCHANGED << pc, vm, stack, heap, gvm, result >>
            ELSE IF ~ R.ok
            THEN runtimeError(t, R.s) /\ UNCHANGED proc
            ELSE Continue(t, R.s) /\ UNCHANGED proc
         /\ hist' = [hist EXCEPT !.err = R.err]
    /\ UNCHANGED << CallFixed, chunk, out >>

\* vm.cpp:771-777
OpSubtract(t) == OpArith(t, "SUBTRACT", "-")

\* vm.cpp:779-785
OpMultiply(t) == OpArith(t, "MULTIPLY", "*")

\* vm.cpp:787-793
OpDivide(t) == OpArith(t, "DIVIDE", "/")

\* vm.cpp:795-801
OpModulus(t) == OpArith(t, "MODULUS", "%")

NextArith ==
    \/ OpConstant(MainThread) \/ OpNil(MainThread) \/ OpTrue(MainThread)
    \/ OpSubtract(MainThread) \/ OpMultiply(MainThread) \/ OpDivide(MainThread)
    \/ OpModulus(MainThread) \/ OpPrint(MainThread) \/ OpReturn(MainThread) \/ MainExit

SpecArith == InitArith /\ [][NextArith]_vars

(***************************************************************************)
(* Indexing (vm.cpp:1043-1144).  The script is `print x[i];` or            *)
(* `x[i] = v;` for x the list [1, 2] or the string "ab", i from -1 to 2    *)
(* and v a number, a string of one character or a string of two.           *)
(***************************************************************************)

IndexObjs == {"list", "string"}
IndexIdx == {-1, 0, 1, 2}
IndexItems == {"none", "number", "char", "chars"}
IndexConsts == << KNum(1), KNum(2), KStr(<< "a", "b" >>), KNum(0), KNum(7),
                  KStr(<< "b" >>), KStr(<< "b", "a" >>) >>

ObjInstrs(x) ==
    IF x = "list" THEN << I("CONSTANT", 1), I("CONSTANT", 2), I("BUILD_LIST", 2) >>
    ELSE << I("CONSTANT", 3) >>

IdxInstrs(i) ==
    CASE i = -1 -> << I("CONSTANT", 1), I("NEGATE", 0) >>
      [] i = 0 -> << I("CONSTANT", 4) >>
      [] OTHER -> << I("CONSTANT", i) >>

ItemInstrs(v) ==
    CASE v = "none" -> << I("INDEX_GET", 0), I("PRINT", 0) >>
      [] v = "number" -> << I("CONSTANT", 5), I("INDEX_SET", 0), I("POP", 0) >>
      [] v = "char" -> << I("CONSTANT", 6), I("INDEX_SET", 0), I("POP", 0) >>
      [] OTHER -> << I("CONSTANT", 7), I("INDEX_SET", 0), I("POP", 0) >>

ProgIndex(x, i, v) ==
    [src |-> "index", consts |-> IndexConsts,
     code |-> ObjInstrs(x) \o IdxInstrs(i) \o ItemInstrs(v)
                \o << I("NIL", 0), I("RETURN", 0) >>]

InitIndex ==
    \E x \in IndexObjs, i \in IndexIdx, v \in IndexItems :
      \E b \in {interpret(dispatchThread(BlankMach), ProgIndex(x, i, v))} :
        /\ chunk = [src |-> "index", code |-> ProgIndex(x, i, v).code, constants |-> b.r]
        /\ vm = b.s.vm /\ stack = b.s.stack /\ heap = b.s.heap /\ gvm = b.s.gvm
        /\ MainOnly
        /\ hist = [finishOf |-> [t \in Threads |-> NoThread], closed |-> {},
                   atCall |-> {}, err |-> "none"]

NextIndex ==
    \/ OpConstant(MainThread) \/ OpNegate(MainThread) \/ OpBuildList(MainThread)
    \/ OpIndexGet(MainThread) \/ OpIndexSet(MainThread) \/ OpPrint(MainThread)
    \/ OpPop(MainThread) \/ OpNil(MainThread) \/ OpReturn(MainThread) \/ MainExit

SpecIndex == InitIndex /\ [][NextIndex]_vars

(***************************************************************************)
(* Closures over locals (vm.cpp:376-422, 857-871, 956-960).  The scripts:  *)
(*   capture      { var x = 1; var y = 2; fun g() { return y; }            *)
(*                  fun h() { return x + y; } }                            *)
(*   captureFail  the same with `-nil;` as the last statement of the block *)
(*   captureAsync { var x = 1; fun g() { return x; }                       *)
(*                  async { { var y = 2; fun h() { return y; } } } }       *)
(* Slot 0 of the frame is the script's closure, the locals follow.         *)
(***************************************************************************)

Up(fn, indexes) ==
    [fn |-> fn, upvalues |-> [i \in 1..Len(indexes) |-> [isLocal |-> TRUE,
                                                          index |-> indexes[i]]]]

ProgCapture(fail) ==
    [src |-> IF fail THEN "captureFail" ELSE "capture",
     consts |-> << KNum(1), KNum(2) >>,
     code |-> << I("CONSTANT", 1), I("CONSTANT", 2),
                 I("CLOSURE", Up(3, << 2 >>)), I("CLOSURE", Up(4, << 1, 2 >>)) >>
              \o (IF fail THEN << I("NIL", 0), I("NEGATE", 0), I("POP", 0) >> ELSE <<>>)
              \o << I("POP", 0), I("POP", 0), I("CLOSE_UPVALUE", 0),
                    I("CLOSE_UPVALUE", 0), I("NIL", 0), I("RETURN", 0) >>]

ProgCaptureAsync ==
    [src |-> "captureAsync",
     consts |-> << KNum(1), KNum(2) >>,
     code |-> << I("CONSTANT", 1), I("CLOSURE", Up(3, << 1 >>)),
                 I("ASYNC_BEGIN", 5),
                 I("CONSTANT", 2), I("CLOSURE", Up(4, << 3 >>)), I("POP", 0),
                 I("CLOSE_UPVALUE", 0), I("ASYNC_END", 0),
                 I("POP", 0), I("CLOSE_UPVALUE", 0), I("NIL", 0), I("RETURN", 0) >>]

UpvaluePrograms == << ProgCapture(FALSE), ProgCapture(TRUE), ProgCaptureAsync >>

\* the functions g and h as the compiler leaves them among the constants
\* (object.cpp:192-200)
newFunctions(b) ==
    LET S1 == allocateObject(b.s, 0, "function", <<>>)
        S2 == allocateObject(S1, 0, "function", <<>>)
    IN  [s |-> S2, r |-> b.r \o << ObjVal(NewId(b.s)), ObjVal(NewId(S1)) >>]

InitUpvalue ==
    \E p \in 1..Len(UpvaluePrograms) :
      \E b \in {newFunctions(interpret(dispatchThread(BlankMach), UpvaluePrograms[p]))} :
        /\ chunk = [src |-> UpvaluePrograms[p].src, code |-> UpvaluePrograms[p].code,
                    constants |-> b.r]
        /\ vm = b.s.vm /\ stack = b.s.stack /\ heap = b.s.heap /\ gvm = b.s.gvm
        /\ MainOnly
        /\ hist = [finishOf |-> [t \in Threads |-> NoThread], closed |-> {},
                   atCall |-> {}]

NextUpvalue ==
    \/ \E t \in Threads :
          \/ OpConstant(t) \/ OpNil(t) \/ OpNegate(t) \/ OpPop(t)
          \/ OpClosure(t) \/ OpCloseUpvalue(t) \/ OpReturn(t)
          \/ AsyncGetVM(t) \/ AsyncFindFreeVM(t) \/ AsyncSpawn(t)
          \/ ChildSetId(t) \/ ChildSetActive(t)
          \/ AsyncEndLock1(t) \/ AsyncEndLock2(t) \/ AsyncEndFree(t)
          \/ AsyncEndPop(t)
          \/ ChildFreeActive(t)
    \/ MainExit

SpecUpvalue == InitUpvalue /\ [][NextUpvalue]_vars

(***************************************************************************)
(* Statements (src/unnamed/part_001).  The compiler as a function from a   *)
(* syntax tree to code, with an instruction for each opcode and its        *)
(* operand, and jump operands counted in instructions.  A compiler state C *)
(* holds the code, the locals (the first is the function's own slot 0),    *)
(* the scope depth and, for every statement compiled, where its code       *)
(* starts, where it ends and how many locals were in scope.                *)
(***************************************************************************)

Lit(op, a) == [k |-> "lit", op |-> op, a |-> a]
Var(n) == [k |-> "var", name |-> n]
Assign(n, e) == [k |-> "assign", name |-> n, e |-> e]
DVar(n, e) == [k |-> "vardecl", name |-> n, e |-> e]
SExpr(e) == [k |-> "expr", e |-> e]
SPrint(e) == [k |-> "print", e |-> e]
SBlock(ds) == [k |-> "block", body |-> ds]
SIf(c, t, e) == [k |-> "if", c |-> c, then |-> t, else |-> e]
SWhile(c, b) == [k |-> "while", c |-> c, body |-> b]
SFor(i, c, n, b) == [k |-> "for", init |-> i, c |-> c, inc |-> n, body |-> b]
SFinish(ds) == [k |-> "finish", body |-> ds]
SAsync(ds) == [k |-> "async", body |-> ds]
Nothing == [k |-> "none"]

\* part_001:486-519: slot 0 belongs to the script
initCompiler ==
    [code |-> <<>>, locals |-> << [name |-> "this", depth |-> 0] >>, scopeDepth |-> 0,
     spans |-> <<>>]

\* part_001:419-425: the place of the jump to patch
emitJump(C0, op) ==
    Then(C0, LAMBDA C : [c |-> emitByte(C, I(op, 0)), r |-> Len(C.code) + 1])

\* part_001:463-474: the jump at offset lands behind the code emitted so far
patchJump(C0, offset) ==
    Then(C0, LAMBDA C : [C EXCEPT !.code[offset].a = Len(C.code) - offset])

\* part_001:1125-1135
emitLoop(C0, loopStart) ==
    Then(C0, LAMBDA C : emitByte(C, I("LOOP", Len(C.code) + 2 - loopStart)))

\* part_001:575-578
beginScope(C) == [C EXCEPT !.scopeDepth = @ + 1]

\* a scope left with the values of its locals still on the stack
endScope_keepsValues(C0) ==
    Then(C0, LAMBDA C :
      [C EXCEPT !.scopeDepth = @ - 1,
                !.locals = SelectSeq(@, LAMBDA l : l.depth <= C.scopeDepth - 1)])

\* part_001:557-567; no local of the scripts below is captured
RECURSIVE popLocals(_)
popLocals(C0) ==
    Then(C0, LAMBDA C :
      IF Len(C.locals) > 0 /\ C.locals[Len(C.locals)].depth > C.scopeDepth
      THEN popLocals([emitByte(C, I("POP", 0)) EXCEPT
                        !.locals = SubSeq(@, 1, Len(@) - 1)])
      ELSE C)

\* part_001:554-568
endScope(C) == popLocals([C EXCEPT !.scopeDepth = @ - 1])

\* part_001:620-636: the innermost local of that name, -1 for a global
resolveLocal(C0, name) ==
    Then(C0, LAMBDA C :
      Then({i \in 1..Len(C.locals) : C.locals[i].name = name}, LAMBDA found :
        IF found = {} THEN -1
        ELSE (CHOOSE i \in found : \A j \in found : j <= i) - 1))

\* part_001:712-725
addLocal(C, name) == [C EXCEPT !.locals = Append(@, [name |-> name, depth |-> -1])]

\* part_001:729-734
markInitialized(C0) ==
    Then(C0, LAMBDA C :
      IF C.scopeDepth = 0 THEN C
      ELSE [C EXCEPT !.locals[Len(C.locals)].depth = C.scopeDepth])

\* part_001:836-858 (namedVariable) and the literals (1037-1052)
RECURSIVE expression(_, _)
expression(C0, e) ==
    Then(C0, LAMBDA C :
      CASE e.k = "lit" -> emitByte(C, I(e.op, e.a))
        [] e.k = "var" ->
             Then(resolveLocal(C, e.name), LAMBDA arg :
               IF arg = -1 THEN emitByte(C, I("GET_GLOBAL", 0))
               ELSE emitByte(C, I("GET_LOCAL", arg)))
        [] e.k = "assign" ->
             Then(resolveLocal(C, e.name), LAMBDA arg :
               IF arg = -1 THEN emitByte(expression(C, e.e), I("SET_GLOBAL", 0))
               ELSE emitByte(expression(C, e.e), I("SET_LOCAL", arg))))

\* part_001:1302-1315 with parseVariable (775-785) and defineVariable
\* (794-802): a local's value stays on the stack as its slot
varDeclaration(C0, d) ==
    Then(C0, LAMBDA C :
      IF C.scopeDepth = 0
      THEN emitByte(IF d.e.k = "none" THEN emitByte(C, I("NIL", 0))
                    ELSE expression(C, d.e),
                    I("DEFINE_GLOBAL", 0))
      ELSE markInitialized(IF d.e.k = "none"
                           THEN emitByte(addLocal(C, d.name), I("NIL", 0))
                           ELSE expression(addLocal(C, d.name), d.e)))

\* part_001:1321-1326
expressionStatement(C, s) == emitByte(expression(C, s.e), I("POP", 0))

\* part_001:1410-1415
printStatement(C, s) == emitByte(expression(C, s.e), I("PRINT", 0))

\* the code of a statement compiled from C to D, and the locals in scope
Span(C, D, kind) ==
    [start |-> Len(C.code) + 1, end |-> Len(D.code) + 1, depth |-> Len(C.locals),
     kind |-> kind]

RECURSIVE declaration(_, _), statement(_, _), block(_, _, _), compileStatement(_, _)

\* part_001:1142-1149
block(C, ds, i) ==
    IF i > Len(ds) THEN C ELSE block(declaration(C, ds[i]), ds, i + 1)

\* part_001:1499-1512
declaration(C, d) ==
    IF d.k = "vardecl" THEN varDeclaration(C, d) ELSE statement(C, d)

\* part_001:1386-1403
ifStatement(C, s) ==
    Then(emitJump(expression(C, s.c), "JUMP_IF_FALSE"), LAMBDA thenJump :
      Then(emitJump(statement(emitByte(thenJump.c, I("POP", 0)), s.then), "JUMP"),
           LAMBDA elseJump :
        patchJump(IF s.else.k = "none"
                  THEN emitByte(patchJump(elseJump.c, thenJump.r), I("POP", 0))
                  ELSE statement(emitByte(patchJump(elseJump.c, thenJump.r),
                                          I("POP", 0)),
                                 s.else),
                  elseJump.r)))

\* part_001:1446-1460
whileStatement(C0, s) ==
    Then(C0, LAMBDA C :
      Then(emitJump(expression(C, s.c), "JUMP_IF_FALSE"), LAMBDA exitJump :
        emitByte(patchJump(emitLoop(statement(emitByte(exitJump.c, I("POP", 0)),
                                              s.body),
                                    Len(C.code) + 1),
                           exitJump.r),
                 I("POP", 0))))

\* part_001:1348-1356: the condition clause
forCondition(C, s) ==
    IF s.c.k = "none" THEN [c |-> C, r |-> -1]
    ELSE Then(emitJump(expression(C, s.c), "JUMP_IF_FALSE"), LAMBDA exitJump :
           [c |-> emitByte(exitJump.c, I("POP", 0)), r |-> exitJump.r])

\* part_001:1358-1368: the increment clause, run after the body
forIncrement(C, s, loopStart) ==
    IF s.inc.k = "none" THEN [c |-> C, r |-> loopStart]
    ELSE Then(emitJump(C, "JUMP"), LAMBDA bodyJump :
           [c |-> patchJump(emitLoop(emitByte(expression(bodyJump.c, s.inc),
                                              I("POP", 0)),
                                     loopStart),
                            bodyJump.r),
            r |-> Len(bodyJump.c.code) + 1])

\* part_001:1334-1379
forStatement(C, s) ==
    Then(IF s.init.k = "none" THEN beginScope(C)
         ELSE IF s.init.k = "vardecl" THEN varDeclaration(beginScope(C), s.init)
         ELSE expressionStatement(beginScope(C), s.init),
         LAMBDA C1 :
      Then(forCondition(C1, s), LAMBDA exitJump :
        Then(forIncrement(exitJump.c, s, Len(C1.code) + 1), LAMBDA increment :
          Then(emitLoop(statement(increment.c, s.body), increment.r), LAMBDA C4 :
            endScope(IF exitJump.r = -1 THEN C4
                     ELSE emitByte(patchJump(C4, exitJump.r), I("POP", 0)))))))

\* part_001:1274-1282
finishDeclaration(C, s) ==
    emitByte(endScope(block(beginScope(emitByte(C, I("FINISH_BEGIN", 0))), s.body, 1)),
             I("FINISH_END", 0))

\* part_001:1284-1294
asyncDeclaration(C, s) ==
    Then(emitJump(C, "ASYNC_BEGIN"), LAMBDA exitJump :
      patchJump(emitByte(endScope(block(beginScope(exitJump.c), s.body, 1)),
                         I("ASYNC_END", 0)),
                exitJump.r))

\* part_001:1520-1543
compileStatement(C, s) ==
    CASE s.k = "print"  -> printStatement(C, s)
      [] s.k = "if"     -> ifStatement(C, s)
      [] s.k = "block"  -> endScope(block(beginScope(C), s.body, 1))
      [] s.k = "for"    -> forStatement(C, s)
      [] s.k = "while"  -> whileStatement(C, s)
      [] s.k = "finish" -> finishDeclaration(C, s)
      [] s.k = "async"  -> asyncDeclaration(C, s)
      [] s.k = "expr"   -> expressionStatement(C, s)

\* the statement's code, and the note of where it lies
statement(C0, s) ==
    Then(C0, LAMBDA C :
      Then(compileStatement(C, s), LAMBDA D :
        [D EXCEPT !.spans = Append(@, Span(C, D, s.k))]))

\* part_001:1728-1744 (compile) with emitReturn (433-441) from endCompiler
compile(src, consts, ds) ==
    Then(emitByte(emitByte(block(initCompiler, ds, 1), I("NIL", 0)), I("RETURN", 0)),
         LAMBDA C : [src |-> src, consts |-> consts, code |-> C.code,
                     spans |-> C.spans])

Nil == Lit("NIL", 0)
True == Lit("TRUE", 0)
Num(k) == Lit("CONSTANT", k)

\* { var i = true; while (i) { print i; i = nil; } }
ProgWhile ==
    compile("while", <<>>,
            << SBlock(<< DVar("i", True),
                         SWhile(Var("i"), SBlock(<< SPrint(Var("i")),
                                                    SExpr(Assign("i", Nil)) >>)) >>) >>)

\* for (var j = true; j; j = nil) { var k = j; print k; }  for (; nil;) {}
ProgFor ==
    compile("for", <<>>,
            << SFor(DVar("j", True), Var("j"), Assign("j", Nil),
                    SBlock(<< DVar("k", Var("j")), SPrint(Var("k")) >>)),
               SFor(Nothing, Nil, Nothing, SBlock(<<>>)) >>)

\* if (true) print 1; else print 2;  if (nil) 1; else { var x = 2; x; }
ProgIf ==
    compile("if", << KNum(1), KNum(2) >>,
            << SIf(True, SPrint(Num(1)), SPrint(Num(2))),
               SIf(Nil, SExpr(Num(1)), SBlock(<< DVar("x", Num(2)), SExpr(Var("x")) >>)) >>)

\* finish { async { print 1; { var y = 2; y; } } } print 2;
ProgFinishStmt ==
    compile("finish", << KNum(1), KNum(2) >>,
            << SFinish(<< SAsync(<< SPrint(Num(1)),
                                    SBlock(<< DVar("y", Num(2)), SExpr(Var("y")) >>) >>) >>),
               SPrint(Num(2)) >>)

\* { var z = 1; async { var w; if (z) w = z; } z; }
ProgAsyncStmt ==
    compile("async", << KNum(1) >>,
            << SBlock(<< DVar("z", Num(1)),
                         SAsync(<< DVar("w", Nothing),
                                   SIf(Var("z"), SExpr(Assign("w", Var("z"))), Nothing) >>),
                         SExpr(Var("z")) >>) >>)

StmtPrograms == << ProgWhile, ProgFor, ProgIf, ProgFinishStmt, ProgAsyncStmt >>

InitStmt ==
    \E p \in 1..Len(StmtPrograms) :
      \E b \in {interpret(dispatchThread(BlankMach), StmtPrograms[p])} :
        /\ chunk = [src |-> StmtPrograms[p].src, code |-> StmtPrograms[p].code,
                    constants |-> b.r, spans |-> StmtPrograms[p].spans]
        /\ vm = b.s.vm /\ stack = b.s.stack /\ heap = b.s.heap /\ gvm = b.s.gvm
        /\ MainOnly
        /\ hist = [finishOf |-> [t \in Threads |-> NoThread], closed |-> {},
                   atCall |-> {}]

\* vm.cpp:996-1000
OpJump(t) ==
    /\ At(t, "JUMP")
    /\ Continue(t, [Fetch(t) EXCEPT !.vm[tvm[t]].ip = @ + Operand(t)])
    /\ UNCHANGED << Dispatch, out >>

NextStmt ==
    \/ \E t \in Threads :
          \/ OpConstant(t) \/ OpNil(t) \/ OpTrue(t) \/ OpPop(t)
          \/ OpGetLocal(t) \/ OpSetLocal(t) \/ OpPrint(t)
          \/ OpJumpIfFalse(t) \/ OpJump(t) \/ OpLoop(t) \/ OpReturn(t)
          \/ OpFinishBegin(t) \/ OpFinishEnd(t) \/ OpFinishEndSkip(t)
          \/ OpFinishEndCrash(t)
          \/ AsyncGetVM(t) \/ AsyncFindFreeVM(t) \/ AsyncSpawn(t)
          \/ ChildSetId(t) \/ ChildSetActive(t)
          \/ AsyncEndLock1(t) \/ AsyncEndLock2(t) \/ AsyncEndFree(t)
          \/ AsyncEndPop(t)
          \/ ChildFreeActive(t)
    \/ MainExit

SpecStmt == InitStmt /\ [][NextStmt]_vars
(***************************************************************************)
(* The probe sequences of one table (table.cpp) under any sequence of      *)
(* tableSet and tableDelete over eight keys, four of which start at one    *)
(* index of the 8-entry table and two at the next.  The table is kept in   *)
(* vm[0].globals; hist notes the last call.                                *)
(***************************************************************************)

ProbeKeys == << << "a" >>, << "i" >>, << "q" >>, << "y" >>, << "b" >>, << "j" >>,
                << "c" >>, << "d" >> >>
MaxProbeCount == 15

InitProbe ==
    /\ MainOnly
    /\ chunk = [src |-> "probe", code |-> <<>>, constants |-> <<>>]
    /\ vm = [BlankMach.vm EXCEPT ![0].assigned = TRUE, ![0].stackTop = Addr(0, 1),
                                 ![0].strings = initTable, ![0].globals = initTable]
    /\ stack = BlankMach.stack /\ gvm = BlankMach.gvm
    /\ heap = [k \in 1..Len(ProbeKeys) |->
                 [type |-> "string", chars |-> ProbeKeys[k], hash |-> HashOf(ProbeKeys[k]),
                  isMarked |-> FALSE]]
    /\ hist = [op |-> "none", key |-> NULL]

\* table.tableSet(key, true)
ProbeSet(key) ==
    /\ vm[0].globals.count < MaxProbeCount
    /\ vm' = [vm EXCEPT ![0].globals = Table_tableSet(heap, @, key, BoolVal(TRUE))]
    /\ hist' = [op |-> "set", key |-> key]
    /\ UNCHANGED << stack, heap, gvm, Others >>

\* table.tableDelete(key)
ProbeDelete(key) ==
    /\ vm' = [vm EXCEPT ![0].globals = tableDelete(heap, @, key)]
    /\ hist' = [op |-> "delete", key |-> key]
    /\ UNCHANGED << stack, heap, gvm, Others >>

NextProbe ==
    \/ \E key \in 1..Len(ProbeKeys) : ProbeSet(key)
    \/ \E key \in 1..Len(ProbeKeys) : ProbeDelete(key)

SpecProbe == InitProbe /\ [][NextProbe]_vars
(***************************************************************************)
(* The byte counter (memory.cpp, object.cpp).  Lists and strings are       *)
(* created, grown and shrunk on the VM of the main thread, and freeObject  *)
(* is applied to an object as sweep() and freeObjects() apply it to the    *)
(* objects of the list they walk.  hist.base is the counter less the       *)
(* blocks allocated when the run starts.                                   *)
(***************************************************************************)

MaxMemObjs == 2
MaxMemItems == 9
MemStrings == { << "x" >>, << "x", "y" >> }

\* the bytes of the blocks of the objects not freed, each block with the
\* size it was last allocated or resized to
RECURSIVE LiveBytes(_, _)
LiveBytes(hp, i) ==
    IF i > Len(hp) THEN 0
    ELSE LiveBytes(hp, i + 1)
         + (CASE hp[i].type = "freed" -> 0
              [] hp[i].type = "string" -> SizeOf("string") + Len(hp[i].chars) + 1
              [] hp[i].type = "list" -> SizeOf("list") + ValueSize * hp[i].capacity
              [] OTHER -> SizeOf(hp[i].type))

InitMem ==
    \E boot \in {dispatchThread(BlankMach)} :
      /\ MainOnly
      /\ chunk = [src |-> "memory", code |-> <<>>, constants |-> <<>>]
      /\ vm = boot.vm /\ stack = boot.stack /\ heap = boot.heap /\ gvm = boot.gvm
      /\ hist = [op |-> "none", first |-> Len(boot.heap) + 1,
                 base |-> boot.gvm.bytesAllocated - LiveBytes(boot.heap, 1)]

MemObjs(type) == {o \in hist.first..Len(heap) : heap[o].type = type}

\* newList()
MemNewList ==
    /\ Len(heap) - hist.first + 1 < MaxMemObjs
    /\ Set(newList(Mach, 0))
    /\ hist' = [hist EXCEPT !.op = "newList"]
    /\ UNCHANGED Others

\* appendToList(list, 1)
MemAppend(list) ==
    /\ Len(heap[list].items) < MaxMemItems
    /\ Set(appendToList(Mach, list, NumberVal(1)))
    /\ hist' = [hist EXCEPT !.op = "append"]
    /\ UNCHANGED Others

\* deleteFromList(list, 0)
MemDelete(list) ==
    /\ Len(heap[list].items) > 0
    /\ Set(deleteFromList(Mach, list, 0))
    /\ hist' = [hist EXCEPT !.op = "delete"]
    /\ UNCHANGED Others

\* copyString(chars, length)
MemCopyString(chars) ==
    /\ Len(heap) - hist.first + 1 < MaxMemObjs
    /\ Set(copyString(Mach, 0, chars).s)
    /\ hist' = [hist EXCEPT !.op = "copyString"]
    /\ UNCHANGED Others

\* freeObject(object)
MemFreeObject(object) ==
    /\ Set(freeObject(Mach, object))
    /\ hist' = [hist EXCEPT !.op = "free"]
    /\ UNCHANGED Others

NextMem ==
    \/ MemNewList
    \/ \E list \in MemObjs("list") : MemAppend(list)
    \/ \E list \in MemObjs("list") : MemDelete(list)
    \/ \E chars \in MemStrings : MemCopyString(chars)
    \/ \E object \in MemObjs("list") \cup MemObjs("string") : MemFreeObject(object)

SpecMem == InitMem /\ [][NextMem]_vars
(***************************************************************************)
(* delete(list, index) (vm.cpp:234-250, object.cpp:470-477).  The script   *)
(* is `delete([1, ..., n], i);` for n from 0 to 3 and i among -1, 0, 1, 2  *)
(* and 5.  hist.items and hist.index are n and i.                          *)
(***************************************************************************)

DeleteItems == 0..3
DeleteIdx == {-1, 0, 1, 2, 5}
DeleteConsts == << KNum(1), KNum(2), KNum(3), KStr(NativeNames[4]), KNum(0), KNum(5) >>

DeleteIdxInstrs(i) ==
    CASE i = -1 -> << I("CONSTANT", 1), I("NEGATE", 0) >>
      [] i = 0 -> << I("CONSTANT", 5) >>
      [] i = 5 -> << I("CONSTANT", 6) >>
      [] OTHER -> << I("CONSTANT", i) >>

ProgDelete(n, i) ==
    [src |-> "delete", consts |-> DeleteConsts,
     code |-> << I("GET_GLOBAL", 4) >> \o [k \in 1..n |-> I("CONSTANT", k)]
                \o << I("BUILD_LIST", n) >> \o DeleteIdxInstrs(i)
                \o << I("CALL", 2), I("POP", 0), I("NIL", 0), I("RETURN", 0) >>]

InitDelete ==
    \E n \in DeleteItems, i \in DeleteIdx :
      \E b \in {interpret(dispatchThread(BlankMach), ProgDelete(n, i))} :
        /\ chunk = [src |-> "delete", code |-> ProgDelete(n, i).code, constants |-> b.r]
        /\ vm = b.s.vm /\ stack = b.s.stack /\ heap = b.s.heap /\ gvm = b.s.gvm
        /\ MainOnly
        /\ hist = [finishOf |-> [t \in Threads |-> NoThread], closed |-> {},
                   atCall |-> {}, err |-> "none", items |-> n, index |-> i]

NextDelete ==
    \/ OpGetGlobal(MainThread) \/ OpConstant(MainThread) \/ OpNegate(MainThread)
    \/ OpBuildList(MainThread) \/ OpCall(MainThread) \/ OpPop(MainThread)
    \/ OpNil(MainThread) \/ OpReturn(MainThread) \/ MainExit

SpecDelete == InitDelete /\ [][NextDelete]_vars

(***************************************************************************)
(* List literals (part_001:1054-1078, vm.cpp:1043-1057).  The script is    *)
(* the statement `[e1, ..., en];` whose item ek is `true` when k is a      *)
(* multiple of 3 and `nil` otherwise.  A compiler state holds the code and *)
(* the parser's hadError; hist.items is n.                                 *)
(***************************************************************************)

\* The header that defines UINT8_COUNT is not among the sources.  vm.hpp:7-8
\* makes the stack FRAMES_MAX * UINT8_COUNT cells, 16384 for the 64 frames:
\* the number of the values of one byte.
UINT8_COUNT == UINT8_MAX + 1

LiteralLengths == {0, 1, 2, 3, 4, UINT8_MAX, UINT8_COUNT, UINT8_COUNT + 1}

ItemOf(k) == IF k % 3 = 0 THEN True ELSE Nil

\* an operand as emitByte(uint8_t) stores it
Byte(n) == n % (UINT8_MAX + 1)

\* part_001:1058-1070, the body of the loop for the item after the first
\* itemCount ones
listItem(C0, itemCount) ==
    Then(expression(C0, ItemOf(itemCount + 1)), LAMBDA C :
      IF itemCount = UINT8_COUNT THEN [C EXCEPT !.hadError = TRUE] ELSE C)

\* part_001:1057-1071: the loop from itemCount = from up to itemCount = to,
\* cut in two halves
RECURSIVE listItems(_, _, _)
listItems(C0, from, to) ==
    IF from = to THEN C0
    ELSE IF from + 1 = to THEN listItem(C0, from)
    ELSE Then(listItems(C0, from, (from + to) \div 2), LAMBDA C :
           listItems(C, (from + to) \div 2, to))

\* part_001:1054-1078 for a literal of n items; emitByte(itemCount) passes
\* the int as a uint8_t
list(C, n) == emitByte(listItems(C, 0, n), I("BUILD_LIST", Byte(n)))

\* `[e1, ..., en];` compiled as a script (part_001:1321-1326, 1728-1744)
compileLiteral(n) ==
    Then(emitByte(emitByte(emitByte(list(initCompiler @@ [hadError |-> FALSE], n),
                                    I("POP", 0)), I("NIL", 0)), I("RETURN", 0)),
         LAMBDA C : [src |-> "literal", consts |-> <<>>, code |-> C.code,
                     hadError |-> C.hadError])

LiteralPrograms == [n \in LiteralLengths |-> compileLiteral(n)]

\* The state when compile() has returned to interpret (vm.cpp:489-494),
\* with the closure of the script called already unless compile failed
InitLiteral ==
    \E n \in LiteralLengths :
      \E boot \in {dispatchThread([BlankMach EXCEPT !.stack[0] =
                                      [i \in 1..(UINT8_COUNT + MaxStack) |-> ZeroVal]])} :
        \E b \in {IF LiteralPrograms[n].hadError THEN [s |-> boot, r |-> <<>>]
                  ELSE interpret(boot, LiteralPrograms[n])} :
          /\ chunk = [src |-> "literal", code |-> LiteralPrograms[n].code,
                      constants |-> b.r]
          /\ vm = b.s.vm /\ stack = b.s.stack /\ heap = b.s.heap /\ gvm = b.s.gvm
          /\ proc = "running"
          /\ pc = [t \in Threads |-> IF t = MainThread THEN "compiled" ELSE "unborn"]
          /\ tvm = [t \in Threads |-> IF t = MainThread THEN 0 ELSE NoVM]
          /\ id_to_vm = [t \in Threads |-> IF t = MainThread THEN 0 ELSE NoVM]
          /\ thread_arr = [buf |-> << MainThread >>, n |-> 1, cap |-> 1]
          /\ id_to_vm_mtx = NoThread /\ vm_pool_mtx = NoThread
          /\ new_thread = [t \in Threads |-> NoThread]
          /\ iter = [t \in Threads |-> [i |-> 0, e |-> 0, old |-> <<>>]]
          /\ out = <<>> /\ nthreads = 0
          /\ result = [t \in Threads |-> "none"]
          /\ hist = [finishOf |-> [t \in Threads |-> NoThread], closed |-> {},
                     atCall |-> {}, items |-> n,
                     hadError |-> LiteralPrograms[n].hadError]

\* vm.cpp:495-501: return INTERPRET_COMPILE_ERROR when compile reported an
\* error, run() otherwise
InterpretLiteral ==
    /\ proc = "running" /\ pc[MainThread] = "compiled"
    /\ pc' = [pc EXCEPT ![MainThread] = IF hist.hadError THEN "ret" ELSE "run"]
    /\ result' = [result EXCEPT ![MainThread] =
                     IF hist.hadError THEN "COMPILE_ERROR" ELSE @]
    /\ UNCHANGED << vm, stack, heap, gvm, Dispatch, out >>

NextLiteral ==
    \/ InterpretLiteral
    \/ OpNil(MainThread) \/ OpTrue(MainThread) \/ OpBuildList(MainThread)
    \/ OpPop(MainThread) \/ OpReturn(MainThread) \/ MainExit

SpecLiteral == InitLiteral /\ [][NextLiteral]_vars

---------------------------------------------------------------------------
(* Properties.                                                             *)

PoolSlots == 0..(PoolSize - 1)

InRun(t) == pc[t] \in {"run", "asyncFind", "asyncCopy", "free1", "free2"}

\* The finish blocks left so far were left by OpFinishEnd: FINISH_END found
\* the handle in new_thread intact and joined it, so the handle is spent.
\* This is the case that favours the claims about finish.
FinishIntact == \A c \in hist.closed : new_thread[hist.finishOf[c]] = NoThread

\* C1: when a thread has left a finish block, every child spawned inside
\* the block has finished running its async body.
C1_FinishWaitsForChildren ==
    FinishIntact => \A c \in hist.closed : pc[c] \in {"freed", "ret", "done"}

StrA == <<"a">>
StrB == <<"b">>
StrC == <<"c">>

IsPrefix(p, q) == Len(p) <= Len(q) /\ SubSeq(q, 1, Len(p)) = p

\* C2: finish { async { print "a"; } async { print "b"; } } print "c";
\* prints a and b once each, in either order, and c after both.
C2_FinishScenarioOutput ==
    chunk.src = "finish2" /\ FinishIntact =>
        /\ \/ IsPrefix(out, << StrA, StrB, StrC >>)
           \/ IsPrefix(out, << StrB, StrA, StrC >>)
        /\ proc = "exit(0)" => Len(out) = 3

\* The stack cells a VM reads: those between the slots of its frame and
\* its stackTop
LiveCells(v) == {i \in 1..MaxStack : vm[v].slots.i <= i /\ i < vm[v].stackTop.i}

\* C3: after the spawn the stacks are independent: a step in which a VM
\* executes nothing leaves the stack cells that VM reads as they were.
C3_StacksIndependent ==
    [][\A t \in Threads :
          (/\ pc[t] = "run" /\ pc'[t] = "run"
           /\ vm'[tvm[t]].ip = vm[tvm[t]].ip
           /\ vm'[tvm[t]].stackTop = vm[tvm[t]].stackTop)
          => \A i \in LiveCells(tvm[t]) :
                stack'[vm[tvm[t]].stackTop.vm][i] = stack[vm[tvm[t]].stackTop.vm][i]]_vars

Objects(v) == {vm[v].objects[j] : j \in 1..Len(vm[v].objects)}

\* C4: the heap state of a VM is its own: its init string is an object of
\* its own list, interned in its own table, and the objects its globals
\* hold are objects of its own list.
C4_OwnHeapState ==
    \A v \in PoolSlots :
        vm[v].assigned /\ vm[v].initString # NULL =>
            /\ vm[v].initString \in Objects(v)
            /\ \E e \in vm[v].strings : e.k = vm[v].initString
            /\ \A e \in vm[v].globals : IS_OBJ(e.v) => e.v.v \in Objects(v)

\* C5: an access to id_to_vm or thread_arr that overlaps another thread's
\* use of it is made under the mutex: getVM() and terminateAllThreads read
\* id_to_vm only while no other thread is inside a critical section of
\* id_to_vm_mtx, and thread_arr changes only while no other thread iterates it.
C5_AccessesUnderMutex ==
    [][/\ \A t \in Threads :
             (pc[t] = "run" /\ pc'[t] = "asyncFind") => id_to_vm_mtx = NoThread
       /\ \A t \in Threads :
             (pc[t] = "term" /\ iter'[t].i # iter[t].i) => id_to_vm_mtx = NoThread
       /\ thread_arr' # thread_arr => \A u \in Threads : pc[u] # "term"]_vars

\* Every child so far was started on a slot of the pool
InPool == \A c \in Children : pc[c] # "unborn" => tvm[c] \in PoolSlots

\* C6: with every slot assigned the spawner goes on only once a slot is
\* free, and a child is set up and started on a slot of the pool only.
C6_SpawnOnFreeSlotOnly ==
    /\ \A t \in Threads : pc[t] = "asyncCopy" => tvm[nthreads + 1] \in PoolSlots
    /\ InPool

AllChildrenExited ==
    /\ nthreads > 0
    /\ \A c \in 1..nthreads : pc[c] = "done"
    /\ \A t \in Threads : pc[t] \notin {"asyncFind", "asyncCopy"}

\* C7: a child that executes ASYNC_END leaves id_to_vm and its slot is
\* unassigned afterwards; once all children have exited, every slot but the
\* main thread's is unassigned and no child is in id_to_vm.
C7_AsyncEndFreesSlot ==
    [][/\ \A t \in Threads :
             (pc[t] = "free2" /\ pc'[t] = "freed") =>
                 id_to_vm'[t] = NoVM /\ ~vm'[tvm[t]].assigned
       /\ AllChildrenExited' =>
             /\ \A i \in PoolSlots \ {0} : ~vm'[i].assigned
             /\ \A c \in Children : id_to_vm'[c] = NoVM]_vars

C7_Witness ==
    /\ chunk.src = "saturate" /\ proc = "running"
    /\ nthreads = PoolSize
    /\ AllChildrenExited
    /\ \A i \in PoolSlots \ {0} : ~vm[i].assigned

\* C8: when terminateAllThreads has run, threadFailure is set on the VM of
\* every thread that was in thread_arr at the call and is still running.
\* (Stated for the runs in which every child got a slot of the pool.)
C8_FailureReachesAllThreads ==
    \A t \in Threads :
        InPool /\ pc[t] = "exit" =>
            \A x \in hist.atCall : InRun(x) => vm[tvm[x]].threadFailure

\* C9: a VM whose threadFailure is set leaves run() with
\* INTERPRET_RUNTIME_ERROR at the LOOP it executes next.
\* (Stated for the runs in which every child got a slot of the pool.)
C9_LoopObservesFailure ==
    [][\A t \in Threads :
          (/\ InPool
           /\ At(t, "LOOP") /\ vm[tvm[t]].threadFailure
           /\ vm'[tvm[t]].ip # vm[tvm[t]].ip)
          => pc'[t] = "ret" /\ result'[t] = "RUNTIME_ERROR"]_vars

StringsOf(v) == {o \in Objects(v) : heap[o].type = "string"}

\* C10: two strings of one VM that hold the same characters are the same
\* object.
C10_EqualStringsSameObject ==
    \A v \in PoolSlots :
        \A a, b \in StringsOf(v) : heap[a].chars = heap[b].chars => a = b

\* The strings an intern table holds: the keys of its live entries
InternedKeys(tbl) == {tbl.entries[j].key : j \in 1..tbl.capacity} \ {NULL}

\* C11: copyString of characters that a string of the intern table holds
\* returns a string that was in the table with these characters and adds no
\* entry; and a literal denotes the object that an earlier literal with the
\* same characters denotes.
C11_InternReturnsExisting ==
    [][hist'.op = "copyString" =>
         LET c    == hist'.chars
             same == {k \in InternedKeys(vm[0].strings) : heap[k].chars = c}
         IN  /\ same # {} => hist'.r \in same /\ vm'[0].strings = vm[0].strings
             /\ hist.literal[c] # NULL /\ heap[hist.literal[c]].chars = c
                   => hist'.r = hist.literal[c]]_vars

GObjects == {gvm.objects[j] : j \in 1..Len(gvm.objects)}

\* The references blackenObject follows (memory.cpp:133-187)
Succ(o) ==
    CASE heap[o].type = "closure" -> {heap[o].function}
      [] heap[o].type = "function" ->
           {chunk.constants[j].v : j \in {i \in 1..Len(chunk.constants) :
                                              IS_OBJ(chunk.constants[i])}}
      [] OTHER -> {}

RECURSIVE Closure(_)
Closure(X) ==
    LET Y == X \cup UNION {Succ(o) : o \in X} IN IF Y = X THEN X ELSE Closure(Y)

\* The root set of markRoots (memory.cpp:279-295) taken on the VM in slot v
Roots(v) ==
    ({stack[v][i].v : i \in {j \in 1..(vm[v].stackTop.i - 1) : IS_OBJ(stack[v][j])}}
       \cup (IF vm[v].frameCount > 0 THEN {stack[v][vm[v].slots.i].v} ELSE {})
       \cup {e.k : e \in vm[v].globals}
       \cup {e.v.v : e \in {g \in vm[v].globals : IS_OBJ(g.v)}}
       \cup {vm[v].initString}) \ {NULL}

Reachable(v) == Closure(Roots(v))

InternKeys == {e.k : e \in vm[0].strings} \cup InternedKeys(gvm.strings)

\* C12: a collection never frees an object that is reachable from the roots
\* (stack, frame closures, globals, init string) of the VM that runs the
\* script and owns the object; every such object is still linked in an object
\* list after collectGarbage.
C12_ReachableNeverFreed ==
    \A o \in Reachable(0) : heap[o].type # "freed" /\ o \in Objects(0) \cup GObjects

\* a collection has run since the concatenation result, the newest object,
\* was pushed, and the result is still on the stack
C12_Witness ==
    /\ chunk.src = "concat" /\ pc[MainThread] = "run"
    /\ hist.gcs >= 1 /\ hist.lastLen = Len(heap)
    /\ \E i \in 1..(vm[0].stackTop.i - 1) : stack[0][i] = ObjVal(Len(heap))
    /\ heap[Len(heap)].chars = << "a", "b" >>

\* C13: when the sweep of collectGarbage has finished, every object left in
\* the object list was reachable from a root and has its mark flag cleared;
\* unreachable objects have been unlinked and freed.
C13_OnlyReachableSurvive ==
    pc[MainThread] = "setNextGC" =>
        \A o \in Objects(0) \cup GObjects : o \in Reachable(0) /\ ~heap[o].isMarked

\* C14: within a collection every key left in the intern table is marked when
\* the sweep begins, and after the sweep no key of the intern table refers to a
\* freed string.
C14_InternTablePurged ==
    /\ pc[MainThread] = "sweep" => \A k \in InternKeys : heap[k].isMarked
    /\ pc[MainThread] = "setNextGC" => \A k \in InternKeys : heap[k].type # "freed"

\* C15: a collection that begins in the state the previous collection left
\* (no allocation in between) ends with the same bytesAllocated and leaves
\* every object list and every object as the previous one left them.
C15_SecondCollectionIdle ==
    [][(pc[MainThread] = "setNextGC" /\ pc'[MainThread] = "run" /\ hist'.again) =>
          /\ gvm'.bytesAllocated = hist.lastBytes
          /\ ObjectLists' = hist.lastObjects
          /\ \A o \in 1..Len(heap) : heap'[o].type = "freed" => heap[o].type = "freed"]_vars

C15_Witness ==
    /\ pc[MainThread] = "run" /\ hist.gcs = 2 /\ hist.again
    /\ gvm.bytesAllocated > 0 /\ Len(vm[0].objects) > 0

\* The callee and the arguments of the OP_CALL the main thread is at
Callee == peek(Mach, 0, Operand(MainThread))
CallArg(k) == Arg(Mach, 0, Operand(MainThread), k)
CallsNative(names) ==
    /\ At(MainThread, "CALL") /\ IS_OBJ(Callee)
    /\ heap[Callee.v].type = "native" /\ heap[Callee.v].chars \in names

\* C16: a call of a closure while 64 frames are active fails with the runtime
\* error "Stack overflow." and creates no frame; the number of active frames
\* of a VM never exceeds 64.
C16_StackOverflow ==
    /\ [](\A v \in DOMAIN vm : vm[v].frameCount <= FRAMES_MAX)
    /\ [][(/\ At(MainThread, "CALL") /\ IS_OBJ(Callee)
           /\ heap[Callee.v].type = "closure"
           /\ heap[heap[Callee.v].function].arity = Operand(MainThread)
           /\ vm[0].frameCount = FRAMES_MAX)
            => /\ hist'.err = "Stack overflow."
               /\ result'[MainThread] = "RUNTIME_ERROR"
               /\ vm'[0].frameCount = 0]_vars

C16_Witness ==
    /\ hist.err = "Stack overflow." /\ result[MainThread] = "RUNTIME_ERROR"
    /\ pc[MainThread] = "ret" /\ Len(vm[0].frames) = FRAMES_MAX

\* C20: a call of len, append, delete, int_input, str_input or char_input with
\* the wrong number of arguments or an argument of the wrong type ends the
\* script with a runtime error: interpret returns INTERPRET_RUNTIME_ERROR and
\* the process goes on.
C20_NativeArgumentErrors ==
    [][(\/ /\ CallsNative({NativeNames[8]})
           /\ \/ Operand(MainThread) # 1
              \/ ~(IS_STRING(Mach, CallArg(0)) \/ IS_LIST(Mach, CallArg(0)))
        \/ /\ CallsNative({NativeNames[3], NativeNames[4]})
           /\ \/ Operand(MainThread) # 2
              \/ ~IS_LIST(Mach, CallArg(0))
              \/ heap[Callee.v].chars = NativeNames[4] /\ ~IS_NUMBER(CallArg(1))
        \/ /\ CallsNative({NativeNames[5], NativeNames[6], NativeNames[7]})
           /\ \/ Operand(MainThread) > 1
              \/ Operand(MainThread) = 1 /\ ~IS_STRING(Mach, CallArg(0)))
         => result'[MainThread] = "RUNTIME_ERROR" /\ proc' = "running"]_vars

\* The compiler is about to compile a statement `1;`
EmitsConstant ==
    proc = "running" /\ pc[MainThread] = "declaration" /\ hist.done < hist.source.n

\* C17: emitting the 257th constant of a chunk, and every later one, raises
\* the compile error "Too many constants in one chunk."; the first 256
\* constants are emitted without an error; interpret of a source with more
\* than 256 constants returns INTERPRET_COMPILE_ERROR.
C17_257thConstantRefused ==
    /\ [][EmitsConstant =>
            IF Len(chunk.constants) >= UINT8_MAX + 1
            THEN /\ hist'.parser.hadError /\ hist'.errors = hist.errors + 1
                 /\ hist'.err = "Too many constants in one chunk."
            ELSE hist'.parser = hist.parser /\ hist'.errors = hist.errors]_vars
    /\ [](pc[MainThread] = "ret" /\ Len(chunk.constants) > UINT8_MAX + 1
            => result[MainThread] = "COMPILE_ERROR")

C17_Witness ==
    /\ ~hist.source.bad /\ Len(chunk.constants) = UINT8_MAX + 2
    /\ hist.err = "Too many constants in one chunk."
    /\ result[MainThread] = "COMPILE_ERROR"

\* C17 as stated: emitting the 256th constant of a chunk raises the compile
\* error.
C17_256thConstantRefused ==
    [][EmitsConstant /\ Len(chunk.constants) + 1 = UINT8_MAX + 1
         => hist'.parser.hadError]_vars

\* C18: interpret returns INTERPRET_COMPILE_ERROR exactly when the compiler
\* reported an error, and then nothing has been pushed, called or printed;
\* otherwise a closure of the compiled function is pushed and called with 0
\* arguments (frame 0 at the first instruction, slots at the stack base) and
\* run() is entered.
C18_InterpretCompileError ==
    /\ [][(proc = "running" /\ pc[MainThread] = "declaration" /\ AtEOF) =>
            IF hist.errors > 0
            THEN /\ result'[MainThread] = "COMPILE_ERROR" /\ pc'[MainThread] = "ret"
                 /\ vm' = vm /\ stack' = stack /\ heap' = heap /\ out' = out
            ELSE /\ pc'[MainThread] = "run" /\ result' = result
                 /\ vm'[0].frameCount = 1 /\ vm'[0].ip = 1
                 /\ vm'[0].slots = Addr(0, 1) /\ vm'[0].stackTop = Addr(0, 2)
                 /\ IS_OBJ(stack'[0][1])
                 /\ heap'[stack'[0][1].v].type = "closure"
                 /\ heap'[stack'[0][1].v].function = hist.function]_vars
    /\ [](pc[MainThread] = "ret" =>
            (result[MainThread] = "COMPILE_ERROR" <=> hist.errors > 0))
    /\ [](result[MainThread] = "COMPILE_ERROR" =>
            out = <<>> /\ vm[0].frameCount = 0 /\ vm[0].stackTop = Addr(0, 1))

C18_Witness ==
    /\ hist.source.bad /\ hist.source.n = 1 /\ hist.errors = 1
    /\ pc[MainThread] = "ret" /\ result[MainThread] = "COMPILE_ERROR"
    /\ Len(chunk.code) > 0

\* Some thread has raised a runtime error
Raised == {t \in Threads : result[t] = "RUNTIME_ERROR"}

\* C19, the VM that raised the error: its stack is reset (stack pointer at the
\* base, frame count 0) and its run() has returned, it executes nothing more.
C19_RaisingVMStops ==
    [][\A t \in Threads :
         /\ (t \notin Raised /\ result'[t] = "RUNTIME_ERROR") =>
               /\ vm'[tvm[t]].stackTop = Addr(tvm[t], 1)
               /\ vm'[tvm[t]].frameCount = 0
               /\ pc'[t] = "ret"
         /\ t \in Raised => pc'[t] # "run" /\ result'[t] = "RUNTIME_ERROR"]_vars

\* C19: once an instruction has raised a runtime error no later instruction of
\* the program is executed (no ip moves, nothing is printed), the stack of the
\* VM that raised it is reset, and interpret returns INTERPRET_RUNTIME_ERROR
\* (the process ends with the status of a runtime error, 70).
C19_RuntimeErrorStops ==
    /\ C19_RaisingVMStops
    /\ [][Raised # {} =>
            /\ out' = out
            /\ \A v \in DOMAIN vm : vm'[v].ip = vm[v].ip]_vars
    /\ [](Raised # {} /\ proc # "running" => proc = "exit(70)")

\* C27: under any sequence of set, get and delete (and across growth and
\* tombstone reuse) get(k) on a table answers what the map the table stands
\* for holds at k, for every key at once, and set returns true exactly when
\* the key was absent before the call.
C27_TableIsFiniteMap ==
    /\ [](\A tn \in TableNames, k \in 1..Len(TableKeys) :
             tableGet(heap, TableOf(tn), k) = hist.map[tn][k])
    /\ [][hist'.op = "set" =>
            \E tn \in TableNames, k \in 1..Len(TableKeys) :
               /\ hist'.map = [hist.map EXCEPT ![tn][k] = hist'.map[tn][k]]
               /\ hist'.map[tn][k].found
               /\ vm'[0][tn] # vm[0][tn] \/ hist.map[tn][k] = hist'.map[tn][k]
               /\ hist'.ret = ~ hist.map[tn][k].found]_vars

\* a table grown to 16 entries that holds a tombstone and both keys that met
\* at one index of the 8-entry table, just after a set that returned true
C27_Witness ==
    /\ TableOf("globals").capacity = 16
    /\ \E i \in 1..16 : /\ TableOf("globals").entries[i].key = NULL
                        /\ TableOf("globals").entries[i].value = BoolVal(TRUE)
    /\ hist.map["globals"][1].found /\ hist.map["globals"][2].found
    /\ hist.op = "set" /\ hist.ret

\* C28: tableAddAll(from, to) leaves every key `to` already held with the
\* value it had, and adds every key held only by `from` with from's value.
C28_AddAllKeepsExisting ==
    [][hist'.op = "addAll" =>
         \A k \in 1..Len(TableKeys) :
            tableGet(heap', vm'[0].globals, k) =
               IF hist.map["globals"][k].found THEN hist.map["globals"][k]
               ELSE hist.map["strings"][k]]_vars

\* C24: SET_GLOBAL on a name the globals table does not bind raises the
\* runtime error "Undefined variable" and leaves the table without a binding
\* for the name (so that GET_GLOBAL of it is a runtime error too) and with
\* every other binding as it was; on a bound name it replaces the value and
\* raises no error.
C24_SetGlobal ==
    [][At(MainThread, "SET_GLOBAL") =>
         LET name  == chunk.constants[Operand(MainThread)].v
             value == peek(Mach, 0, 0)
             other == {k \in 1..Len(heap) : heap[k].type = "string" /\ k # name}
         IN  /\ \A k \in other :
                   tableGet(heap', vm'[0].globals, k) = tableGet(heap, vm[0].globals, k)
             /\ IF tableGet(heap, vm[0].globals, name).found
                THEN /\ tableGet(heap', vm'[0].globals, name) = Present(value)
                     /\ result'[MainThread] = "none" /\ pc'[MainThread] = "run"
                     /\ hist'.err = "none"
                ELSE /\ ~ tableGet(heap', vm'[0].globals, name).found
                     /\ result'[MainThread] = "RUNTIME_ERROR"
                     /\ hist'.err = "Undefined variable."]_vars

\* an assignment to an undefined name has raised the error after an
\* assignment to a defined one replaced the value
C24_Witness ==
    /\ chunk.src = "global" /\ result[MainThread] = "RUNTIME_ERROR"
    /\ chunk.code[vm[0].ip - 1].op = "SET_GLOBAL"
    /\ \E k \in 1..2 : tableGet(heap, vm[0].globals, chunk.constants[k].v)
                          = Present(NumberVal(2))

AtArith == \E op \in ArithOps : At(MainThread, op)

\* the instruction at the ip finds an operand that is not a number
NonNumberOperand == AtArith /\ ~ (IS_NUMBER(peek(Mach, 0, 0)) /\ IS_NUMBER(peek(Mach, 0, 1)))

\* both operands are strings of one character
TwoChars ==
    /\ IS_STRING(Mach, peek(Mach, 0, 0)) /\ IS_STRING(Mach, peek(Mach, 0, 1))
    /\ Len(heap[peek(Mach, 0, 0).v].chars) = 1 /\ Len(heap[peek(Mach, 0, 1).v].chars) = 1

\* C25 as stated: SUBTRACT, MULTIPLY, DIVIDE and MODULUS raise a runtime error
\* unless both operands are numbers.
C25_NumbersOnly ==
    [][NonNumberOperand => result'[MainThread] = "RUNTIME_ERROR"]_vars

\* C25 as the code has it: MULTIPLY, DIVIDE and MODULUS raise a runtime error
\* unless both operands are numbers; SUBTRACT raises it unless both are numbers
\* or both are strings of one character, for which it leaves the difference
\* of the character codes (left minus right) in place of the operands.
C25_NumbersOrTwoChars ==
    [][NonNumberOperand =>
         IF At(MainThread, "SUBTRACT") /\ TwoChars
         THEN /\ result'[MainThread] = "none"
              /\ vm'[0].stackTop = Addr(0, vm[0].stackTop.i - 1)
              /\ peek([vm |-> vm', stack |-> stack'], 0, 0) =
                    NumberVal(Code(heap[peek(Mach, 0, 1).v].chars[1])
                                - Code(heap[peek(Mach, 0, 0).v].chars[1]))
         ELSE result'[MainThread] = "RUNTIME_ERROR"]_vars

\* "a" - "b" has left -1, printed by the script
C25_Witness ==
    /\ chunk.src = "arith" /\ chunk.code[3].op = "SUBTRACT"
    /\ out = << << ToString(-1) >> >>

Elements(hp, x) == IF hp[x.v].type = "list" THEN hp[x.v].items ELSE hp[x.v].chars

\* C26: INDEX_GET and INDEX_SET on a list or a string with an index outside
\* 0..length-1 raise a runtime error and leave every element as it was; with
\* an index inside they raise none, INDEX_GET leaves the element at the index
\* (of a string: the string of that character) on the stack and INDEX_SET
\* makes the item the element at the index and changes no other.  (The
\* elements of a string are characters: an item that is a string of
\* another length is no element, and the claim is not read to cover it.)
C26_IndexBounds ==
    [][At(MainThread, "INDEX_GET") \/ At(MainThread, "INDEX_SET") =>
         LET get  == At(MainThread, "INDEX_GET")
             d    == IF get THEN 0 ELSE 1
             item == peek(Mach, 0, 0)
             idx  == peek(Mach, 0, d)
             obj  == peek(Mach, 0, d + 1)
             els  == Elements(heap, obj)
             top  == peek([vm |-> vm', stack |-> stack'], 0, 0)
         IN  (IS_LIST(Mach, obj) \/ IS_STRING(Mach, obj)) /\ IS_NUMBER(idx)
               /\ (get \/ IS_LIST(Mach, obj) \/ ~ IS_STRING(Mach, item)
                       \/ Len(heap[item.v].chars) = 1)
             => IF idx.v \notin 0..(Len(els) - 1)
                THEN result'[MainThread] = "RUNTIME_ERROR" /\ Elements(heap', obj) = els
                ELSE /\ result'[MainThread] = "none" /\ proc' = "running"
                     /\ IF get
                        THEN /\ Elements(heap', obj) = els
                             /\ IF IS_LIST(Mach, obj) THEN top = els[idx.v + 1]
                                ELSE /\ IS_STRING([heap |-> heap'], top)
                                     /\ heap'[top.v].chars = << els[idx.v + 1] >>
                        ELSE /\ IS_LIST(Mach, obj) \/ IS_STRING(Mach, item)
                             /\ Elements(heap', obj) =
                                  [els EXCEPT ![idx.v + 1] =
                                     IF IS_LIST(Mach, obj) THEN item
                                     ELSE heap[item.v].chars[1]]]_vars

ExitCodes == {"exit(0)", "exit(65)", "exit(70)"}

\* C29: the process ends with exit code 65 only after a compile error, with 70
\* when a runtime error was raised in any VM, main or child, and with 0 only
\* when no error of either kind occurred.
C29_ExitCodes ==
    [](proc \in ExitCodes =>
         /\ proc = "exit(65)" <=> result[MainThread] = "COMPILE_ERROR"
         /\ proc = "exit(70)" <=> Raised # {}
         /\ proc = "exit(0)" => Raised = {} /\ result[MainThread] = "OK")

\* the globals of VM v bind the name to the native function of that name
BindsNative(v, name) ==
    \E e \in vm[v].globals :
       /\ heap[e.k].type = "string" /\ heap[e.k].chars = name
       /\ IS_OBJ(e.v) /\ heap[e.v.v].type = "native" /\ heap[e.v.v].chars = name

\* C30: a child VM that copyParent has initialised binds each of the eight
\* native names to its native function in its globals table.
C30_ChildBindsNatives ==
    \A v \in Slots :
       vm[v].assigned /\ vm[v].parent # NoVM =>
          \A k \in 1..Len(NativeNames) : BindsNative(v, NativeNames[k])

\* the open-upvalue list of VM v, from its head along the next fields
RECURSIVE ListFrom(_, _)
ListFrom(hp, upvalue) ==
    IF upvalue = NULL THEN <<>> ELSE << upvalue >> \o ListFrom(hp, hp[upvalue].next)

OpenList(v) == ListFrom(heap, vm[v].openUpvalues)

\* every upvalue of the list is open and each lies at a stack address
\* strictly above the next one's (so no two are at one slot)
SortedOpen(v) ==
    LET l == OpenList(v) IN
    /\ \A i \in 1..Len(l) : IsOpen(Mach, l[i])
    /\ \A i \in 1..(Len(l) - 1) : Above(Mach, l[i], heap[l[i + 1]].location, FALSE)

Upvalues == {u \in 1..Len(heap) : heap[u].type = "upvalue"}

\* thread t is at an instruction that calls captureUpvalue or closeUpvalues
AtUpvalueOp(t) == At(t, "CLOSURE") \/ At(t, "CLOSE_UPVALUE") \/ At(t, "RETURN")

\* C22: after every captureUpvalue and closeUpvalues the open-upvalue list of
\* the VM they worked on holds open upvalues only, in strictly descending
\* order of their stack addresses, and no slot has two open upvalues: a
\* capture of a slot that has one makes no new upvalue for it.
C22_OpenListSorted ==
    [][\A t \in Threads :
         AtUpvalueOp(t) /\ vm'[tvm[t]].ip # vm[tvm[t]].ip =>
            /\ SortedOpen(id_to_vm[t])'
            /\ \A u, w \in Upvalues' :
                  u # w /\ IsOpen(Mach, u)' /\ IsOpen(Mach, w)'
                     => heap'[u].location # heap'[w].location]_vars

Closures == {c \in 1..Len(heap) : heap[c].type = "closure" /\ "upvalues" \in DOMAIN heap[c]}

\* the VM whose object list holds the object
OwnerOf(o) == CHOOSE v \in Slots : \E i \in 1..Len(vm[v].objects) : vm[v].objects[i] = o

\* C23: an upvalue held by a closure is open with its location at a cell
\* below the stack pointer of its own VM's stack, or it is closed and holds in
\* its closed field the value the cell had when it was closed.
C23_UpvalueLocations ==
    /\ [](\A c \in Closures : \A i \in 1..Len(heap[c].upvalues) :
             LET u == heap[c].upvalues[i] IN
             u # NULL /\ IsOpen(Mach, u) =>
                /\ heap[u].location.vm = OwnerOf(c)
                /\ vm[OwnerOf(c)].stackTop.vm = OwnerOf(c)
                /\ heap[u].location.i < vm[OwnerOf(c)].stackTop.i)
    /\ [][\A u \in Upvalues :
            IsOpen(Mach, u) /\ ~ IsOpen(Mach, u)' =>
               heap'[u].closed = stack[heap[u].location.vm][heap[u].location.i]]_vars


\* the values on the stack of the VM a thread runs, counted from its frame
Depth(t) == vm[tvm[t]].stackTop.i - vm[tvm[t]].slots.i

StatementSpans == {chunk.spans[i] : i \in 1..Len(chunk.spans)}

Occupied(tbl) ==
    Cardinality({i \in 1..tbl.capacity :
                   tbl.entries[i].key # NULL \/ tbl.entries[i].value # NilVal})

\* one more occupied slot would exceed 0.75 of the capacity
LoadExceeded(tbl) == 4 * (Occupied(tbl) + 1) > 3 * tbl.capacity

\* C31: a tableSet resizes the table exactly when one more occupied slot
\* (live entry or tombstone) would exceed 0.75 of the capacity, and then to
\* 8 entries or to twice the capacity; a set within the bound leaves the
\* capacity as it is.
C31_GrowsAtLoadFactor ==
    [][hist'.op = "set" =>
         \A tn \in TableNames :
            /\ vm'[0][tn].capacity # vm[0][tn].capacity =>
                  /\ LoadExceeded(vm[0][tn])
                  /\ vm'[0][tn].capacity = GROW_CAPACITY(vm[0][tn].capacity)
            /\ vm'[0][tn] # vm[0][tn] /\ LoadExceeded(vm[0][tn]) =>
                  vm'[0][tn].capacity # vm[0][tn].capacity]_vars


\* the slots of a table never used: no key and the value nil
EmptySlots(tbl) ==
    {i \in 1..tbl.capacity : tbl.entries[i].key = NULL /\ tbl.entries[i].value = NilVal}

\* C39: a table with capacity above 0 has a slot that was never used, and
\* the probe of findEntry and of tableFindString comes to an end for every
\* key, present or absent.
C39_ProbeTerminates ==
    LET tbl == vm[0].globals IN
    tbl.capacity > 0 =>
       /\ EmptySlots(tbl) # {}
       /\ \A k \in DOMAIN heap :
             /\ findEntry(heap, tbl.entries, tbl.capacity, k) # -1
             /\ findStringFrom(heap, tbl, heap[k].chars, heap[k].hash,
                               heap[k].hash.lo % tbl.capacity, 0) # -1

\* a table grown to 16 entries with a tombstone and live keys, in which the
\* probe for an absent key passes the tombstone, ends at an empty slot and
\* answers with the tombstone
C39_Witness ==
    LET tbl == vm[0].globals IN
    /\ tbl.capacity = 16
    /\ Cardinality({i \in 1..16 : tbl.entries[i].key # NULL}) >= 2
    /\ \E k \in DOMAIN heap :
          /\ \A i \in 1..16 : tbl.entries[i].key # k
          /\ LET e == tbl.entries[findEntry(heap, tbl.entries, 16, k) + 1] IN
             e.key = NULL /\ e.value # NilVal
          /\ Table_tableFindString(heap, tbl, heap[k].chars, heap[k].hash) = NULL


\* C32: bytesAllocated is the total size of the blocks allocated through
\* reallocate and not released, each counted with the size it was last
\* allocated or resized to; once every object made during the run is freed
\* the counter is back at the value it started from.
C32_BytesMatchBlocks ==
    gvm.bytesAllocated = hist.base + LiveBytes(heap, 1)


\* The list and the index of a call delete(list, index) about to execute
DeletesAt ==
    /\ CallsNative({NativeNames[4]}) /\ Operand(MainThread) = 2
    /\ IS_LIST(Mach, CallArg(0)) /\ IS_NUMBER(CallArg(1))

\* C33: delete(list, i) with 0 <= i < length removes the element at index i,
\* the later elements move down by one and the length decreases by one; with
\* any other index it raises a runtime error and leaves the elements and the
\* length of the list as they were.
C33_DeleteChecksIndex ==
    [][DeletesAt =>
         LET l == CallArg(0).v
             index == CallArg(1).v
             items == heap[l].items
         IN  IF 0 <= index /\ index < Len(items)
             THEN /\ heap'[l].items =
                        [k \in 1..(Len(items) - 1) |->
                           IF k <= index THEN items[k] ELSE items[k + 1]]
                  /\ result'[MainThread] # "RUNTIME_ERROR" /\ proc' = "running"
             ELSE /\ result'[MainThread] = "RUNTIME_ERROR" /\ proc' = "running"
                  /\ heap'[l].items = items]_vars


\* the cells of the main VM's stack below its top
StackDepth(vms, v) == vms[v].stackTop.i - 1

\* C34: a list literal that compiles without error evaluates to a new list
\* with as many items as the literal has item expressions, holding their
\* values in source order; BUILD_LIST takes exactly those values off the
\* stack and leaves the list in their place.
C34_LiteralBuildsItsItems ==
    [][At(MainThread, "BUILD_LIST") /\ ~hist.hadError =>
         LET l == Len(heap) + 1
             top  == StackDepth(vm, 0)
         IN  /\ Len(heap') = l /\ heap'[l].type = "list"
             /\ Len(heap'[l].items) = hist.items
             /\ \A k \in 1..hist.items :
                  heap'[l].items[k] = stack[0][top - hist.items + k]
             /\ StackDepth(vm', 0) = top - hist.items + 1
             /\ stack'[0][top - hist.items + 1] = ObjVal(l)]_vars


\* The finish-stack entry of the current depth of the VM thread t runs on
CurrentEntry(t) == vm[tvm[t]].finishStack[vm[tvm[t]].finishStackCount]

\* The children spawned inside a finish block of thread t that is still open
OpenChildren(t) ==
    {c \in Children : pc[c] # "unborn" /\ hist.finishOf[c] = t /\ c \notin hist.closed}

\* C35: until the matching FINISH_END every child spawned inside a finish
\* block is registered in the finish-stack entry of the current depth under
\* a handle of its own that still designates it: no two elements of the
\* entry are the same handle, and registering a later child leaves the
\* handles of the earlier ones as they were.
C35_HandlesStayRegistered ==
    \A t \in Threads :
      OpenChildren(t) # {} =>
        /\ \A c \in OpenChildren(t) :
             \E k \in 1..Len(CurrentEntry(t)) : new_thread[CurrentEntry(t)[k]] = c
        /\ \A j, k \in 1..Len(CurrentEntry(t)) :
             j # k => CurrentEntry(t)[j] # CurrentEntry(t)[k]


\* Thread t has been started on a VM and has reads or writes of it ahead:
\* childMain reads its frame before run(), run() works on it, and ASYNC_END
\* pops its stack after Dispatcher::freeVM has returned
UsesVM(t) ==
    pc[t] \in {"start", "setActive", "run", "asyncFind", "asyncCopy", "free1", "free2",
               "freed"}

\* C36: a slot of the pool is in use by one thread at most: the slot of a
\* thread that still reads or writes its VM is not handed out to, nor set up
\* by copyParent for, another thread.
C36_SlotHasOneUser ==
    \A i \in PoolSlots : \A t, u \in Threads :
        tvm[t] = i /\ tvm[u] = i /\ UsesVM(t) /\ UsesVM(u) => t = u


\* the objects freed by the step
FreedNow == {o \in 1..Len(heap) : heap[o].type # "freed" /\ heap'[o].type = "freed"}

\* the threads other than t that go on running on a VM of the pool
OthersRunning(t) == {u \in Threads \ {t} : UsesVM(u) /\ tvm[u] \in PoolSlots}

\* C37: the teardown of a child VM at ASYNC_END frees only objects of that
\* VM's own object list, and no object that the VM of its parent or of a
\* sibling still running can reach from its stack, frames, globals or init
\* string.
C37_TeardownFreesOwnObjects ==
    [][\A t \in Threads :
          pc[t] = "free2" /\ pc'[t] = "freed" =>
             /\ FreedNow \subseteq Objects(tvm[t])
             /\ \A u \in OthersRunning(t) :
                  \A o \in Reachable(tvm[u]) : heap'[o].type # "freed"]_vars

\* a child has torn its VM down while its parent, whose frame holds the
\* script's closure, goes on running
C37_Witness ==
    /\ proc = "running" /\ pc[MainThread] = "run"
    /\ \E c \in Children : pc[c] = "freed" /\ tvm[c] \in PoolSlots \ {0}
    /\ \E o \in Reachable(0) : heap[o].type = "closure"
    /\ \A o \in Reachable(0) : heap[o].type # "freed"


\* thread t holds a mutex of the dispatcher
Holds(t) == id_to_vm_mtx = t \/ vm_pool_mtx = t

\* thread t waits for another thread to end (the join of FINISH_END) or is
\* in asyncBegin looking for a slot of the pool
Waits(t) == At(t, "FINISH_END") \/ pc[t] \in {"asyncFind", "asyncCopy"}

\* C38: the two mutexes of the dispatcher cannot deadlock: a thread that
\* comes to hold both held id_to_vm_mtx first and takes vm_pool_mtx second, a
\* thread that holds a mutex neither joins another thread nor looks for a
\* free slot, and while the process runs a held mutex always has a holder
\* that can go on.
C38_MutexesNeverDeadlock ==
    [][/\ \A t \in Threads :
             (/\ id_to_vm_mtx' = t /\ vm_pool_mtx' = t
              /\ ~(id_to_vm_mtx = t /\ vm_pool_mtx = t))
             => id_to_vm_mtx = t /\ vm_pool_mtx = NoThread
       /\ \A t \in Threads : Holds(t)' => ~Waits(t)'
       /\ (proc' = "running" /\ \E t \in Threads : Holds(t)')
             => \E t \in Threads :
                   Holds(t)' /\ (ENABLED (AsyncEndLock2(t) \/ AsyncEndFree(t)))']_vars

\* a thread holds both mutexes while another has reached the free-slot
\* search, which needs vm_pool_mtx, and a third the setId of childMain, which
\* needs id_to_vm_mtx
C38_Witness ==
    /\ proc = "running"
    /\ \E t, u, w \in Threads :
         /\ id_to_vm_mtx = t /\ vm_pool_mtx = t
         /\ pc[u] = "asyncFind" /\ pc[w] = "start"

====
